---- MODULE Spec2Model ----
(***************************************************************************)
(* Model of the linkedin-stats application run:                            *)
(*   browser service ($START_SERVICE)  ->  linkedin-analytics              *)
(*   ($START_FEATURE)  ->  linkedin-auth ($RUN_AUTH)  ->  parallel scraper *)
(*   (scrapeLinkedInAnalytics)  ->  persist + emit  ->  $FINISH.           *)
(* Every action is one stretch of handler code between two points where    *)
(* the environment (browser, target site, file system) decides an outcome. *)
(***************************************************************************)
EXTENDS Integers, Sequences, FiniteSets, TLC

VARIABLES
    pc,             \* position of the application run (hook-app lifecycle)
    config,         \* settings.linkedin: username, password, headless
    cookieFile,     \* content of the file at linkedin.cookiePath
    initialFile,    \* history: content of the cookie file at process start
    cookieWrites,   \* history: number of writeFileSync calls on the cookie file
    browsers,       \* browsers launched by the service and by linkedin-auth
    ctx,            \* hook-app context (browser.*, linkedin.*)
    browserContext, \* $RUN_AUTH handler local: getContext('browser.context')
    authStage,      \* state of the authentication state machine
    authVisited,    \* history: stages entered in this run
    authError,      \* error thrown by the $RUN_AUTH handler, or NoError
    cookies,        \* scrapeLinkedInAnalytics local: the loaded bundle
    task,           \* the three category tasks of Promise.allSettled
    scrapeError,    \* error scrapeLinkedInAnalytics rejected with, or NoError
    result,         \* LinkedInAnalyticsResult returned, or NoResult
    handlerError,   \* error the $START_FEATURE handler rejected with, or NoError
    events,         \* history: output of the $START_FEATURE handler, in order
    call            \* a function called on its own: name, argument, results

vars == <<pc, config, cookieFile, initialFile, cookieWrites, browsers, ctx,
          browserContext, authStage, authVisited, authError, cookies, task,
          scrapeError, result, handlerError, events, call>>

authVars == <<cookieFile, cookieWrites, browsers, ctx, browserContext,
              authStage, authVisited, authError>>
scrapeVars == <<cookies, task, scrapeError, result>>

-----------------------------------------------------------------------------
(* Strings                                                                 *)

\* String.prototype.includes
Includes(s, sub) ==
    \E i \in 1..(Len(s) - Len(sub) + 1) : SubSeq(s, i, i + Len(sub) - 1) = sub

\* s starts with prefix
StartsWith(s, prefix) ==
    Len(s) >= Len(prefix) /\ SubSeq(s, 1, Len(prefix)) = prefix

NoError == ""

-----------------------------------------------------------------------------
(* Cookie file and cookie jars                                             *)

LINKEDIN_DOMAIN == ".linkedin.com"
NoDomain == ""          \* a cookie record without domain (and without url)

Cookie(n, v, d) == [name |-> n, value |-> v, domain |-> d]

\* File content: absent, not JSON ("garbage"), a JSON array of cookie
\* records, a JSON array with an element that is no cookie record
\* ("badarray"), a flat JSON object (entries are its key/value pairs), or
\* another JSON value ("scalar").
FileOf(k, es) == [kind |-> k, entries |-> es]
AbsentFile == FileOf("absent", <<>>)

StoredToken == "AQEstored"
FreshToken == "AQEfresh"
QuotedSession == "\"ajax:1\""
FreshSession == "\"ajax:2\""

InitFiles ==
    { AbsentFile,
      FileOf("garbage", <<>>),
      FileOf("object", <<Cookie("li_at", StoredToken, NoDomain)>>),
      FileOf("object", <<Cookie("li_at", "", NoDomain)>>),
      FileOf("array", <<>>),
      FileOf("array", <<Cookie("li_at", StoredToken, LINKEDIN_DOMAIN),
                        Cookie("JSESSIONID", QuotedSession, LINKEDIN_DOMAIN)>>),
      FileOf("array", <<Cookie("JSESSIONID", QuotedSession, LINKEDIN_DOMAIN)>>),
      FileOf("array", <<Cookie("li_at", StoredToken, NoDomain)>>) }

\* Cookies the site sets on an anonymous visit of the login page, and on a
\* completed login.
SiteAnonCookies == <<Cookie("JSESSIONID", FreshSession, LINKEDIN_DOMAIN)>>
SiteLoginCookies == <<Cookie("li_at", FreshToken, LINKEDIN_DOMAIN)>>

RECURSIVE WithoutName(_, _)
WithoutName(jar, n) ==
    IF jar = <<>> THEN <<>>
    ELSE IF Head(jar).name = n THEN WithoutName(Tail(jar), n)
         ELSE <<Head(jar)>> \o WithoutName(Tail(jar), n)

\* BrowserContext.addCookies / Set-Cookie: a cookie replaces one of its name
RECURSIVE AddCookies(_, _)
AddCookies(jar, new) ==
    IF new = <<>> THEN jar
    ELSE AddCookies(WithoutName(jar, Head(new).name) \o <<Head(new)>>, Tail(new))

HasCookie(jar, n) == \E i \in 1..Len(jar) : jar[i].name = n /\ jar[i].value # ""

\* BrowserContext.addCookies throws on a cookie with neither url nor domain
AddCookiesThrows(list) == \E i \in 1..Len(list) : list[i].domain = NoDomain

-----------------------------------------------------------------------------
(* linkedin-auth helpers                                                   *)

\* loadCookies of linkedin-auth: Cookie[] | null, null modelled as <<>>
\* (an empty array is null too)
AuthLoadCookies(file) ==
    IF file.kind = "array" /\ Len(file.entries) > 0 THEN file.entries ELSE <<>>

\* getConfig('linkedin.loginTimeoutSeconds', 120) * 1000
loginTimeoutMs == config.loginTimeoutSeconds * 1000

hasCredentialsEither(username, password) == Len(username) > 0 \/ Len(password) > 0
hasCredentials(username, password) == Len(username) > 0 /\ Len(password) > 0

\* the URL of a page that has not navigated yet
BlankUrl == "about:blank"

LINKEDIN_LOGIN_URL == "https://www.linkedin.com/login"
LINKEDIN_FEED_URL == "https://www.linkedin.com/feed/"

\* URLs the browser can be on when page.waitForURL settles
LandingUrls ==
    { LINKEDIN_FEED_URL,
      "https://www.linkedin.com/checkpoint/lg/login-submit",
      "https://www.linkedin.com/uas/challenge",
      LINKEDIN_LOGIN_URL }

\* page.waitForURL('**/feed/**') resolves
ReachedFeed(url) == Includes(url, "/feed/")

\* a mutant of IsChallengeUrl: only checkpoint pages count
IsCheckpointUrl(url) == Includes(url, "checkpoint")

IsChallengeUrl(url) == Includes(url, "checkpoint") \/ Includes(url, "challenge")

\* page.goto(LINKEDIN_LOGIN_URL) rejects
LoginPageError == "Error: page.goto: net::ERR_CONNECTION_RESET at https://www.linkedin.com/login"

BrowserIds == {"service", "challenge", "manual"}
NoBrowser == "none"

\* no login form has been submitted in the browser
NoForm == <<>>

\* a browser that is not launched: no cookies, no open page, no login form
\* submitted, no wait for the feed started (wait is its timeout in ms)
Unlaunched == [state |-> "unlaunched", headless |-> TRUE, jar |-> <<>>,
               pages |-> 0, url |-> BlankUrl, form |-> NoForm, wait |-> 0]

\* chromium.launch({headless}) and newContext()
Launched(headless, jar, url, form) ==
    [state |-> "open", headless |-> headless, jar |-> jar,
     pages |-> IF url = BlankUrl THEN 0 ELSE 1, url |-> url,
     form |-> form, wait |-> 0]

FatalStages == {"LoginFailed", "Timeout", "Fatal"}
ManualStages == {"InteractiveManualLogin", "AwaitingManualLogin"}

Enter(stage) ==
    /\ authStage' = stage
    /\ authVisited' = authVisited \cup {stage}

Fail(stage, msg) ==
    /\ Enter(stage)
    /\ authError' = msg

\* a mutant of saveCookiesFromContext: nothing is written
saveCookiesSkipped(context, jars) ==
    UNCHANGED <<cookieFile, cookieWrites>>

\* saveCookiesFromContext: context.cookies() then saveCookies (writeFileSync)
saveCookiesFromContext(context, jars) ==
    /\ cookieFile' = FileOf("array", jars[context].jar)
    /\ cookieWrites' = cookieWrites + 1

\* a mutant of Publish: the page is published, the flag is not set
PublishPageOnly(c, pageOwner) == [c EXCEPT !.page = pageOwner]

\* setContext('linkedin.page', page); setContext('linkedin.authenticated', true)
Publish(c, pageOwner) ==
    [c EXCEPT !.page = pageOwner, !.authenticated = TRUE]

-----------------------------------------------------------------------------
(* Initial state: the process has started, nothing is launched             *)

Categories == <<"content", "audience", "demographics">>
Cat == {Categories[i] : i \in 1..Len(Categories)}

NoBundle == <<>>
NoResult == [built |-> FALSE]
NoValue == "null"

\* no function is called on its own
NoCall == [fn |-> "none", arg |-> <<>>, ret |-> <<>>]

IdleTask == [pc |-> "idle", browser |-> "none", session |-> "none",
             status |-> "pending", value |-> NoValue, reason |-> NoError]

Init ==
    /\ pc = "boot"
    /\ config \in [username : {"", "user@example.com"},
                   password : {"", "secret"},
                   headless : BOOLEAN,
                   loginTimeoutSeconds : {30, 120}]
    /\ cookieFile \in InitFiles
    /\ initialFile = cookieFile
    /\ cookieWrites = 0
    /\ browsers = [b \in BrowserIds |-> Unlaunched]
    /\ ctx = [instance |-> NoBrowser, context |-> NoBrowser, headless |-> TRUE,
              page |-> NoBrowser, authenticated |-> FALSE]
    /\ browserContext = NoBrowser
    /\ authStage = "NotStarted"
    /\ authVisited = {}
    /\ authError = NoError
    /\ cookies = NoBundle
    /\ task = [c \in Cat |-> IdleTask]
    /\ scrapeError = NoError
    /\ result = NoResult
    /\ handlerError = NoError
    /\ events = <<>>
    /\ call = NoCall

-----------------------------------------------------------------------------
(* Browser service                                                         *)

LaunchError == "Error: browserType.launch: Executable doesn't exist"

\* $START_SERVICE: chromium.launch, newContext, setContext x3
StartService ==
    /\ pc = "boot"
    /\ pc' = "startFeature"
    /\ browsers' = [browsers EXCEPT !["service"] =
                      Launched(config.headless, <<>>, BlankUrl, NoForm)]
    /\ ctx' = [ctx EXCEPT !.instance = "service", !.context = "service",
                          !.headless = config.headless]
    /\ UNCHANGED <<config, cookieFile, initialFile, call, cookieWrites, browserContext,
                   authStage, authVisited, authError, handlerError, events>>
    /\ UNCHANGED scrapeVars

\* $START_SERVICE: chromium.launch rejects; hookApp rejects, process.exit(1)
StartServiceFails ==
    /\ pc = "boot"
    /\ pc' = "crashed"
    /\ handlerError' = NoError
    /\ UNCHANGED <<config, initialFile, call, events>>
    /\ UNCHANGED authVars
    /\ UNCHANGED scrapeVars

-----------------------------------------------------------------------------
(* linkedin-auth: the $RUN_AUTH handler                                    *)

AuthFrame == /\ UNCHANGED <<pc, config, initialFile, call, handlerError, events>>
             /\ UNCHANGED scrapeVars

\* $START_FEATURE handler up to `await createHook.serie(hooks.RUN_AUTH)`, and
\* the $RUN_AUTH handler up to its first await: config, browser.context and
\* the saved cookies are read.
StartFeature ==
    /\ pc = "startFeature"
    /\ pc' = "auth"
    /\ browserContext' = ctx.context
    /\ authStage' = IF AuthLoadCookies(cookieFile) # <<>>
                    THEN "CookieRestoreAttempt" ELSE "NoStoredCookies"
    /\ authVisited' = {"Start", authStage'}
    /\ UNCHANGED <<config, cookieFile, initialFile, call, cookieWrites, browsers, ctx,
                   authError, handlerError, events>>
    /\ UNCHANGED scrapeVars

\* validateSession can only succeed with a session token in the jar
ValidateOutcomes(jar) == IF HasCookie(jar, "li_at") THEN BOOLEAN ELSE {FALSE}

\* a mutant of RestoreValid: the restored session's cookies are saved too
RestoreValidSaves(jar) ==
    /\ browsers' = [browsers EXCEPT ![browserContext].jar = jar,
                                     ![browserContext].pages = @ + 1,
                                     ![browserContext].url = LINKEDIN_FEED_URL]
    /\ cookieFile' = FileOf("array", jar)
    /\ cookieWrites' = cookieWrites + 1
    /\ ctx' = Publish(ctx, browserContext)
    /\ Enter("Authenticated")
    /\ UNCHANGED authError

\* Path 1, session valid: publish and return (no cookie write)
RestoreValid(jar) ==
    /\ browsers' = [browsers EXCEPT ![browserContext].jar = jar,
                                     ![browserContext].pages = @ + 1,
                                     ![browserContext].url = LINKEDIN_FEED_URL]
    /\ ctx' = Publish(ctx, browserContext)
    /\ Enter("Authenticated")
    /\ UNCHANGED <<cookieFile, cookieWrites, authError>>

\* a mutant of ClearCookies: the rejected cookies stay in the jar
KeepCookies(jars, context) ==
    [jars EXCEPT ![context].jar = AddCookies(@, AuthLoadCookies(cookieFile))]

\* browserContext.clearCookies()
ClearCookies(jars, context) == [jars EXCEPT ![context].jar = <<>>]

\* Path 1: addCookies, newPage, validateSession, then publish or discard
CookieRestore ==
    /\ pc = "auth"
    /\ authStage = "CookieRestoreAttempt"
    /\ LET savedCookies == AuthLoadCookies(cookieFile)
           jar == AddCookies(browsers[browserContext].jar, savedCookies)
       IN IF AddCookiesThrows(savedCookies)
          THEN /\ Fail("Fatal", "Error: browserContext.addCookies: Cookie should have a url or a domain/path pair")
               /\ UNCHANGED <<cookieFile, cookieWrites, browsers, ctx>>
          ELSE \E isValid \in ValidateOutcomes(jar) :
                 IF isValid
                 THEN RestoreValid(jar)
                 ELSE \* newPage, validateSession, page.close(),
                      \* browserContext.clearCookies()
                      /\ browsers' = ClearCookies(browsers, browserContext)
                      /\ Enter("CookiesRejected")
                      /\ UNCHANGED <<cookieFile, cookieWrites, ctx, authError>>
    /\ UNCHANGED browserContext
    /\ AuthFrame

\* a mutant of SelectLogin: a rejected session is restored once more
SelectLoginRetries ==
    /\ pc = "auth"
    /\ authStage \in {"CookiesRejected", "NoStoredCookies"}
    /\ IF authStage = "CookiesRejected"
       THEN Enter("CookieRestoreAttempt")
       ELSE IF hasCredentials(config.username, config.password)
            THEN Enter("CredentialLoginAttempt")
            ELSE Enter("InteractiveManualLogin")
    /\ UNCHANGED <<cookieFile, cookieWrites, browsers, ctx, browserContext, authError>>
    /\ AuthFrame

\* `if (hasCredentials)`: path 2, else path 3
SelectLogin ==
    /\ pc = "auth"
    /\ authStage \in {"CookiesRejected", "NoStoredCookies"}
    /\ IF hasCredentials(config.username, config.password)
       THEN Enter("CredentialLoginAttempt")
       ELSE Enter("InteractiveManualLogin")
    /\ UNCHANGED <<cookieFile, cookieWrites, browsers, ctx, browserContext, authError>>
    /\ AuthFrame

\* Path 2 after loginWithCredentials / handleSecurityChallenge returned the
\* page: save the cookies of the handler's browserContext, publish the page
CredentialLoginComplete(jars, pageOwner) ==
    /\ browsers' = jars
    /\ saveCookiesFromContext(browserContext, jars)
    /\ ctx' = Publish(ctx, pageOwner)
    /\ Enter("Authenticated")
    /\ UNCHANGED authError

\* loginWithCredentials: newPage, goto login, fill, click, waitForURL
CredentialLogin ==
    /\ pc = "auth"
    /\ authStage = "CredentialLoginAttempt"
    /\ \/ \E url \in LandingUrls :
            LET visited == [browsers EXCEPT ![browserContext].jar =
                               AddCookies(@, SiteAnonCookies),
                                            ![browserContext].pages = @ + 1,
                                            ![browserContext].url = url,
                                            ![browserContext].form =
                               <<config.username, config.password>>,
                                            ![browserContext].wait = loginTimeoutMs]
            IN IF ReachedFeed(url)
               THEN CredentialLoginComplete(
                        [visited EXCEPT ![browserContext].jar =
                            AddCookies(@, SiteLoginCookies)], browserContext)
               ELSE /\ IF IsChallengeUrl(url)
                       THEN \* page.close()
                            /\ browsers' = [visited EXCEPT
                                              ![browserContext].pages = @ - 1]
                            /\ Enter("ChallengeDetected")
                            /\ UNCHANGED authError
                       ELSE /\ browsers' = visited
                            /\ Fail("LoginFailed", "Error: [LinkedIn Auth] Login failed.")
                    /\ UNCHANGED <<cookieFile, cookieWrites, ctx>>
       \/ \* newPage, then page.goto outside the try block rejects
          /\ browsers' = [browsers EXCEPT ![browserContext].pages = @ + 1]
          /\ Fail("Fatal", LoginPageError)
          /\ UNCHANGED <<cookieFile, cookieWrites, ctx>>
    /\ UNCHANGED browserContext
    /\ AuthFrame

\* a mutant of HeadedSession: the relaunched browser is headless
HeadlessSession(form) ==
    Launched(TRUE, SiteAnonCookies, LINKEDIN_LOGIN_URL, form)

\* chromium.launch({headless: false}), newContext, newPage, goto login (and
\* the login form submitted, if any)
HeadedSession(form) ==
    Launched(FALSE, SiteAnonCookies, LINKEDIN_LOGIN_URL, form)

\* handleSecurityChallenge: chromium.launch({headless: false}), newContext,
\* newPage, goto login, fill, click
ChallengeRelaunch ==
    /\ pc = "auth"
    /\ authStage = "ChallengeDetected"
    /\ \/ /\ browsers' = [browsers EXCEPT !["challenge"] =
                            HeadedSession(<<config.username, config.password>>)]
          /\ Enter("InteractiveChallengeResolution")
          /\ UNCHANGED authError
       \/ /\ Fail("Fatal", LaunchError)
          /\ UNCHANGED browsers
       \/ \* launched, then page.goto rejects: the headed browser stays open
          /\ browsers' = [browsers EXCEPT !["challenge"] =
                            [Launched(FALSE, <<>>, BlankUrl, NoForm) EXCEPT !.pages = 1]]
          /\ Fail("Fatal", LoginPageError)
    /\ UNCHANGED <<cookieFile, cookieWrites, ctx, browserContext>>
    /\ AuthFrame

\* handleSecurityChallenge: waitForURL in the headed browser
ChallengeWait ==
    /\ pc = "auth"
    /\ authStage = "InteractiveChallengeResolution"
    /\ \E url \in LandingUrls :
         IF ReachedFeed(url)
         THEN CredentialLoginComplete(
                  [browsers EXCEPT !["challenge"].jar =
                      AddCookies(@, SiteLoginCookies),
                                   !["challenge"].url = url,
                                   !["challenge"].wait = loginTimeoutMs], "challenge")
         ELSE /\ browsers' = [browsers EXCEPT !["challenge"].state = "closed",
                                              !["challenge"].url = url,
                                              !["challenge"].wait = loginTimeoutMs]
              /\ Fail("Timeout", "Error: [LinkedIn Auth] Security challenge timeout")
              /\ UNCHANGED <<cookieFile, cookieWrites, ctx>>
    /\ UNCHANGED browserContext
    /\ AuthFrame

\* a mutant of RegisterHeaded: the headed browser is not registered
RegisterNothing(c) == c

\* setContext('browser.instance', headedBrowser); setContext('browser.context',
\* headedContext); setContext('browser.headless', false)
RegisterHeaded(c) ==
    [c EXCEPT !.instance = "manual", !.context = "manual", !.headless = FALSE]

\* loginManually: close browser.instance, launch headed, setContext x3,
\* newPage, goto login
ManualRelaunch ==
    /\ pc = "auth"
    /\ authStage = "InteractiveManualLogin"
    /\ LET closed == [browsers EXCEPT ![ctx.instance].state = "closed"]
       IN \/ /\ browsers' = [closed EXCEPT !["manual"] =
                               HeadedSession(NoForm)]
             /\ ctx' = RegisterHeaded(ctx)
             /\ Enter("AwaitingManualLogin")
             /\ UNCHANGED authError
          \/ /\ browsers' = closed
             /\ Fail("Fatal", LaunchError)
             /\ UNCHANGED ctx
          \/ \* launched and registered, then page.goto rejects
             /\ browsers' = [closed EXCEPT !["manual"] =
                               [Launched(FALSE, <<>>, BlankUrl, NoForm) EXCEPT !.pages = 1]]
             /\ ctx' = RegisterHeaded(ctx)
             /\ Fail("Fatal", LoginPageError)
    /\ UNCHANGED <<cookieFile, cookieWrites, browserContext>>
    /\ AuthFrame

\* loginManually: waitForURL; then the handler saves the cookies of the
\* registered browser.context and publishes the page
ManualWait ==
    /\ pc = "auth"
    /\ authStage = "AwaitingManualLogin"
    /\ \E url \in LandingUrls :
         IF ReachedFeed(url)
         THEN LET jars == [browsers EXCEPT !["manual"].jar =
                              AddCookies(@, SiteLoginCookies),
                                           !["manual"].url = url,
                                           !["manual"].wait = loginTimeoutMs]
              IN /\ browsers' = jars
                 /\ saveCookiesFromContext(ctx.context, jars)
                 /\ ctx' = Publish(ctx, "manual")
                 /\ Enter("Authenticated")
                 /\ UNCHANGED authError
         ELSE /\ browsers' = [browsers EXCEPT !["manual"].url = url,
                                              !["manual"].wait = loginTimeoutMs]
              /\ Fail("Timeout", "Error: [LinkedIn Auth] Login timeout")
              /\ UNCHANGED <<cookieFile, cookieWrites, ctx>>
    /\ UNCHANGED browserContext
    /\ AuthFrame

\* createHook.serie resolves: the $START_FEATURE handler goes on to call
\* scrapeLinkedInAnalytics
AuthResolved ==
    /\ pc = "auth"
    /\ authStage = "Authenticated"
    /\ pc' = "scrape"
    /\ UNCHANGED <<config, initialFile, call, handlerError, events>>
    /\ UNCHANGED authVars
    /\ UNCHANGED scrapeVars

\* a mutant of AuthRejected: the hook runner swallows the handler's error
AuthRejectedSwallowed ==
    /\ pc = "auth"
    /\ authStage \in FatalStages
    /\ pc' = "scrape"
    /\ UNCHANGED <<config, initialFile, call, handlerError, events>>
    /\ UNCHANGED authVars
    /\ UNCHANGED scrapeVars

\* createHook.serie rejects with the $RUN_AUTH handler's error: the
\* $START_FEATURE handler rejects, hookApp rejects, process.exit(1)
AuthRejected ==
    /\ pc = "auth"
    /\ authStage \in FatalStages
    /\ pc' = "crashed"
    /\ handlerError' = authError
    /\ UNCHANGED <<config, initialFile, call, events>>
    /\ UNCHANGED authVars
    /\ UNCHANGED scrapeVars

-----------------------------------------------------------------------------
(* linkedin-scraper: loadCookies                                           *)

\* Map.get / property lookup: the last entry of that name decides
Has(entries, n) == \E i \in 1..Len(entries) : entries[i].name = n
Get(entries, n) ==
    LET last == CHOOSE i \in 1..Len(entries) :
                    /\ entries[i].name = n
                    /\ \A j \in (i + 1)..Len(entries) : entries[j].name # n
    IN entries[last].value

OptionalFields == {"JSESSIONID", "liap", "li_rm"}

\* a mutant of BundleOf: absent optional fields default to the empty string
BundleOfDefaulted(entries) ==
    [n \in {"li_at"} \cup OptionalFields |->
        IF Has(entries, n) THEN Get(entries, n) ELSE ""]

\* const cookies = { li_at }; if (X !== undefined) cookies.X = X
BundleOf(entries) ==
    [n \in {"li_at"} \cup {f \in OptionalFields : Has(entries, f)} |-> Get(entries, n)]

Threw(msg) == [ok |-> FALSE, error |-> msg, bundle |-> NoBundle]
Loaded(b) == [ok |-> TRUE, error |-> NoError, bundle |-> b]

NotFoundError == "Error: Cookie file not found"
\* a mutant of NotValidError: a parse failure reported as a missing file
NotValidAsNotFound == "Error: Cookie file not found"
NotValidError == "Error: Cookie file is not valid JSON"
ValidationError == "Error: Cookie file validation failed"
MissingTokenError == "Error: Cookie file is missing required 'li_at' cookie."

\* a mutant of loadCookies: the required token is not checked
loadCookiesUnchecked(file) ==
    IF file.kind = "absent" THEN Threw(NotFoundError)
    ELSE IF file.kind = "garbage" THEN Threw(NotValidError)
    ELSE Loaded([n \in {f \in {"li_at"} \cup OptionalFields : Has(file.entries, f)}
                    |-> Get(file.entries, n)])

loadCookies(file) ==
    IF file.kind = "absent" THEN Threw(NotFoundError)
    ELSE IF file.kind = "garbage" THEN Threw(NotValidError)
    ELSE IF file.kind = "badarray" THEN Threw(ValidationError)
    ELSE IF file.kind = "array"
    THEN IF ~Has(file.entries, "li_at") \/ Len(Get(file.entries, "li_at")) = 0
         THEN Threw(MissingTokenError)
         ELSE Loaded(BundleOf(file.entries))
    ELSE IF ~Has(file.entries, "li_at") \/ Len(Get(file.entries, "li_at")) < 1
         THEN Threw(ValidationError)
         ELSE Loaded(BundleOf(file.entries))

-----------------------------------------------------------------------------
(* linkedin-scraper: scrapeLinkedInAnalytics                               *)

ScrapeFrame == /\ UNCHANGED <<config, initialFile, call, handlerError, events>>
               /\ UNCHANGED authVars

\* scrapeLinkedInAnalytics up to `await Promise.allSettled`: the bundle is
\* loaded, and each task runs up to its `await createBrowserSession`
ScrapeStart ==
    /\ pc = "scrape"
    /\ LET loaded == loadCookies(cookieFile)
       IN IF loaded.ok
          THEN /\ pc' = "tasks"
               /\ cookies' = loaded.bundle
               /\ task' = [c \in Cat |-> [IdleTask EXCEPT !.pc = "create"]]
               /\ UNCHANGED scrapeError
          ELSE /\ pc' = "scrapeFailed"
               /\ scrapeError' = loaded.error
               /\ UNCHANGED <<cookies, task>>
    /\ UNCHANGED result
    /\ ScrapeFrame

TaskFrame == /\ UNCHANGED <<pc, cookies, scrapeError, result>>
             /\ ScrapeFrame

Rejected(t, why) == [t EXCEPT !.pc = "settled", !.status = "rejected", !.reason = why]

SessionError == "Error: browser.newContext: Target page, context or browser has been closed"
InjectError == "Error: browserContext.addCookies: Target page, context or browser has been closed"
BlockedError == "Error: LinkedIn blocked the session. Please refresh your li_at cookie."
NavigationError == "Error: page.goto: net::ERR_CONNECTION_RESET"

\* the rejection reason of a task whose chromium.launch failed
LaunchRejectionWrapped(err) == "Error: session creation failed"
LaunchRejection(err) == err

\* createBrowserSession(headless): launch, newContext, addInitScript, newPage
CreateSession(c) ==
    /\ pc = "tasks"
    /\ task[c].pc = "create"
    /\ \/ task' = [task EXCEPT ![c] = Rejected(@, LaunchRejection(LaunchError))]
       \/ task' = [task EXCEPT ![c] = Rejected([@ EXCEPT !.browser = "open"], SessionError)]
       \/ task' = [task EXCEPT ![c] = [@ EXCEPT !.pc = "inject", !.browser = "open",
                                                !.session = "open"]]
    /\ TaskFrame

\* try block has completed by return or throw: control is at `finally`
Returned(t, v) == [t EXCEPT !.pc = "finally", !.value = v]
Thrown(t, why) == [t EXCEPT !.pc = "finally", !.reason = why]

\* await injectCookies(session.context, cookies)
InjectCookies(c) ==
    /\ pc = "tasks"
    /\ task[c].pc = "inject"
    /\ \/ task' = [task EXCEPT ![c].pc = "extract"]
       \/ task' = [task EXCEPT ![c] = Thrown(@, InjectError)]
    /\ TaskFrame

\* the category object an extractor returns
ValueOf(c) == "{" \o c \o "}"

\* return await scrapeXAnalytics(session.page)
Extract(c) ==
    /\ pc = "tasks"
    /\ task[c].pc = "extract"
    /\ \/ task' = [task EXCEPT ![c] = Returned(@, ValueOf(c))]
       \/ \E why \in {BlockedError, NavigationError} :
             task' = [task EXCEPT ![c] = Thrown(@, why)]
    /\ TaskFrame

\* the task's promise settles with the completion of its try block
Settle(t) ==
    [t EXCEPT !.pc = "settled",
              !.status = IF t.reason = NoError THEN "fulfilled" ELSE "rejected"]

\* a mutant of Finally: the session is closed on the success path only
FinallyOnSuccessOnly(c) ==
    /\ pc = "tasks"
    /\ task[c].pc = "finally"
    /\ task' = [task EXCEPT ![c] =
                  Settle(IF @.reason = NoError
                         THEN [@ EXCEPT !.session = "closed", !.browser = "closed"]
                         ELSE @)]
    /\ TaskFrame

\* a mutant of Finally: the tasks share one session, which the first task
\* to finish closes
FinallyClosesShared(c) ==
    /\ pc = "tasks"
    /\ task[c].pc = "finally"
    /\ task' = [d \in Cat |->
                  IF d = c
                  THEN Settle([task[d] EXCEPT !.session = "closed", !.browser = "closed"])
                  ELSE IF task[d].session = "open"
                       THEN [task[d] EXCEPT !.session = "closed", !.browser = "closed"]
                       ELSE task[d]]
    /\ TaskFrame

\* finally { await session.close() }: page, context and browser are closed,
\* errors swallowed; then the promise settles
Finally(c) ==
    /\ pc = "tasks"
    /\ task[c].pc = "finally"
    /\ task' = [task EXCEPT ![c] =
                  Settle([@ EXCEPT !.session = "closed", !.browser = "closed"])]
    /\ TaskFrame

\* a mutant of AllSettled: Promise.all semantics, the join does not wait
\* once a task has rejected
SettledOrOneRejected(tasks) ==
    \/ \A c \in Cat : tasks[c].status # "pending"
    \/ \E c \in Cat : tasks[c].status = "rejected"

\* Promise.allSettled resolves
AllSettled(tasks) == \A c \in Cat : tasks[c].status # "pending"

\* `${category}: ${String(reason)}`
FormatError(c, reason) == c \o ": " \o reason

\* a mutant of CollectErrors: the failed categories in reverse order
RECURSIVE CollectErrorsReversed(_, _)
CollectErrorsReversed(cs, tasks) ==
    IF cs = <<>> THEN <<>>
    ELSE CollectErrorsReversed(Tail(cs), tasks)
           \o (IF tasks[Head(cs)].status = "rejected"
               THEN <<FormatError(Head(cs), tasks[Head(cs)].reason)>>
               ELSE <<>>)

\* the three `if (xResult.status === 'rejected') errors.push(...)` in turn
RECURSIVE CollectErrors(_, _)
CollectErrors(cs, tasks) ==
    IF cs = <<>> THEN <<>>
    ELSE (IF tasks[Head(cs)].status = "rejected"
          THEN <<FormatError(Head(cs), tasks[Head(cs)].reason)>>
          ELSE <<>>) \o CollectErrors(Tail(cs), tasks)

\* a mutant of BuildResult: a rejected task makes every category null
BuildResultAllOrNothing(tasks) ==
    [built |-> TRUE,
     data |-> [c \in Cat |-> IF \A d \in Cat : tasks[d].status = "fulfilled"
                             THEN tasks[c].value ELSE NoValue],
     errors |-> CollectErrors(Categories, tasks)]

\* the errors array and the returned object
BuildResult(tasks) ==
    [built |-> TRUE,
     data |-> [c \in Cat |-> IF tasks[c].status = "fulfilled"
                             THEN tasks[c].value ELSE NoValue],
     errors |-> CollectErrors(Categories, tasks)]

\* Promise.allSettled resolves; the result is built and returned
Join ==
    /\ pc = "tasks"
    /\ AllSettled(task)
    /\ pc' = "returned"
    /\ result' = BuildResult(task)
    /\ UNCHANGED <<cookies, task, scrapeError>>
    /\ ScrapeFrame

-----------------------------------------------------------------------------
(* linkedin-analytics: the rest of the $START_FEATURE handler, and $FINISH  *)

\* a mutant of PersistAndEmit: the hook is emitted whether or not
\* scrapeLinkedInAnalytics returned, and before the file is written
EmitAndPersist ==
    /\ pc \in {"returned", "scrapeFailed"}
    /\ pc' = "finish"
    /\ events' = events \o <<"emit", "write">>
    /\ UNCHANGED <<config, initialFile, call, handlerError>>
    /\ UNCHANGED authVars
    /\ UNCHANGED scrapeVars

\* writeFileSync(OUTPUT_PATH), printSummary, createHook.sync(ANALYTICS_COMPLETE)
PersistAndEmit ==
    /\ pc = "returned"
    /\ pc' = "finish"
    /\ events' = events \o <<"write", "emit">>
    /\ UNCHANGED <<config, initialFile, call, handlerError>>
    /\ UNCHANGED authVars
    /\ UNCHANGED scrapeVars

\* a mutant of ScrapeCaught: the handler lets the error through
ScrapeRethrown ==
    /\ pc = "scrapeFailed"
    /\ pc' = "crashed"
    /\ handlerError' = scrapeError
    /\ UNCHANGED <<config, initialFile, call, events>>
    /\ UNCHANGED authVars
    /\ UNCHANGED scrapeVars

\* catch (err) { console.error(...); return; }
ScrapeCaught ==
    /\ pc = "scrapeFailed"
    /\ pc' = "finish"
    /\ UNCHANGED <<config, initialFile, call, handlerError, events>>
    /\ UNCHANGED authVars
    /\ UNCHANGED scrapeVars

\* $FINISH: browser.instance is closed
Finish ==
    /\ pc = "finish"
    /\ pc' = "done"
    /\ browsers' = [browsers EXCEPT ![ctx.instance].state = "closed"]
    /\ UNCHANGED <<config, initialFile, call, handlerError, events, cookieFile,
                   cookieWrites, ctx, browserContext, authStage, authVisited,
                   authError>>
    /\ UNCHANGED scrapeVars

-----------------------------------------------------------------------------
Next ==
    \/ StartService
    \/ StartServiceFails
    \/ StartFeature
    \/ CookieRestore
    \/ SelectLogin
    \/ CredentialLogin
    \/ ChallengeRelaunch
    \/ ChallengeWait
    \/ ManualRelaunch
    \/ ManualWait
    \/ AuthResolved
    \/ AuthRejected
    \/ ScrapeStart
    \/ \E c \in Cat : CreateSession(c)
    \/ \E c \in Cat : InjectCookies(c)
    \/ \E c \in Cat : Extract(c)
    \/ \E c \in Cat : Finally(c)
    \/ Join
    \/ PersistAndEmit
    \/ ScrapeCaught
    \/ Finish

Spec == Init /\ [][Next]_vars

-----------------------------------------------------------------------------
(* scrapeLinkedInAnalytics called on its own (it is the exported entry of  *)
(* linkedin-scraper), with any cookie file                                 *)

ScrapeInit ==
    /\ pc = "scrape"
    /\ config \in [username : {""}, password : {""}, headless : BOOLEAN,
                   loginTimeoutSeconds : {120}]
    /\ cookieFile \in InitFiles
    /\ initialFile = cookieFile
    /\ cookieWrites = 0
    /\ browsers = [b \in BrowserIds |-> Unlaunched]
    /\ ctx = [instance |-> NoBrowser, context |-> NoBrowser, headless |-> TRUE,
              page |-> NoBrowser, authenticated |-> FALSE]
    /\ browserContext = NoBrowser
    /\ authStage = "NotStarted"
    /\ authVisited = {}
    /\ authError = NoError
    /\ cookies = NoBundle
    /\ task = [c \in Cat |-> IdleTask]
    /\ scrapeError = NoError
    /\ result = NoResult
    /\ handlerError = NoError
    /\ events = <<>>
    /\ call = NoCall

ScrapeNext ==
    \/ ScrapeStart
    \/ \E c \in Cat : CreateSession(c)
    \/ \E c \in Cat : InjectCookies(c)
    \/ \E c \in Cat : Extract(c)
    \/ \E c \in Cat : Finally(c)
    \/ Join

ScrapeSpec == ScrapeInit /\ [][ScrapeNext]_vars

-----------------------------------------------------------------------------
(* Properties of the parallel scrape orchestrator (under ScrapeSpec)       *)

ErrorsOf(c) ==
    {i \in 1..Len(result.errors) : StartsWith(result.errors[i], c \o ": ")}

\* C1: whatever the outcomes of the three category tasks, scrapeAll returns
\* a result in which a category is non-null exactly when its task
\* succeeded, and errors holds exactly one entry, prefixed with the category
\* name, per failed category and none for a category that succeeded.
C1_ResultMatchesOutcomes ==
    /\ (pc = "tasks" /\ AllSettled(task)) => ENABLED Join
    /\ pc \in {"tasks", "returned"} => scrapeError = NoError
    /\ pc = "returned" => result.built
    /\ result.built =>
         /\ \A c \in Cat :
              /\ (result.data[c] # NoValue) <=> (task[c].status = "fulfilled")
              /\ task[c].status = "fulfilled" => result.data[c] = ValueOf(c)
              /\ Cardinality(ErrorsOf(c)) =
                    IF task[c].status = "rejected" THEN 1 ELSE 0
         /\ Len(result.errors) = Cardinality({c \in Cat : task[c].status = "rejected"})

C1_Witness ==
    /\ result.built
    /\ task["content"].status = "fulfilled"
    /\ task["audience"].status = "rejected"
    /\ task["demographics"].status = "fulfilled"
    /\ result.data["audience"] = NoValue
    /\ Len(result.errors) = 1

TaskStep(c) == CreateSession(c) \/ InjectCookies(c) \/ Extract(c) \/ Finally(c)

\* C2: a failing category task never cancels or blocks its siblings: a task
\* that has not settled can always take its next step whatever the state of
\* the others, a step of one task changes no other task, and the result is
\* built only after all three have settled.
C2_NoCancellationJoinAfterAll ==
    /\ [](/\ result.built => \A c \in Cat : task[c].status # "pending"
          /\ pc = "tasks" =>
               \A c \in Cat : task[c].status = "pending" => ENABLED TaskStep(c))
    /\ [][\A c \in Cat :
            (task[c].pc # "idle" /\ task'[c] # task[c]) =>
                \A d \in Cat \ {c} : task'[d] = task[d]]_vars

C2_Witness ==
    /\ pc = "tasks"
    /\ task["content"].status = "rejected"
    /\ task["audience"].pc = "finally"
    /\ task["audience"].reason = NoError
    /\ task["demographics"].pc = "extract"

ScrapeReturned == pc \in {"returned", "finish", "done"}

\* C3: every browser session a category task created is torn down on every
\* exit path of the task (extractor success, cookie-injection failure,
\* extractor failure), so none is open once the task has settled nor when
\* scrapeAll returns.
C3_SessionsTornDown ==
    /\ \A c \in Cat : task[c].pc = "settled" => task[c].session # "open"
    /\ ScrapeReturned => \A c \in Cat : task[c].session \in {"none", "closed"}

C3_Witness ==
    /\ pc = "returned"
    /\ task["content"].reason = InjectError
    /\ task["audience"].reason = BlockedError
    /\ task["demographics"].status = "fulfilled"
    /\ \A c \in Cat : task[c].session = "closed"

\* the file holds no usable bundle: absent, not parseable, or the required
\* token absent or empty
BundleInvalid(file) ==
    \/ file.kind \in {"absent", "garbage"}
    \/ \A i \in 1..Len(file.entries) :
          file.entries[i].name = "li_at" => file.entries[i].value = ""

ScrapeStarted == pc \in {"tasks", "returned", "scrapeFailed", "finish", "done"}

\* C4: if loading the cookie bundle fails (file absent, not parseable, or
\* required token absent or empty), scrapeAll fails with the loader's error
\* before any browser session is created, and no result is produced.
C4_InvalidBundleIsFatal ==
    (ScrapeStarted /\ BundleInvalid(cookieFile)) =>
        /\ pc # "tasks" /\ pc # "returned"
        /\ scrapeError \in {NotFoundError, NotValidError, ValidationError,
                            MissingTokenError}
        /\ cookieFile.kind = "absent" => scrapeError = NotFoundError
        /\ cookieFile.kind = "garbage" => scrapeError = NotValidError
        /\ ~result.built
        /\ \A c \in Cat : task[c] = IdleTask

C4_Witness ==
    /\ pc = "scrapeFailed"
    /\ cookieFile.kind = "array"
    /\ scrapeError = MissingTokenError

\* the task of category c ended in createBrowserSession's chromium.launch
LaunchFailed(c) == task[c].pc = "settled" /\ task[c].browser = "none"

\* C5 as stated: a browser launch failure during a scrape cycle aborts the
\* cycle, scrapeAll fails with the launch error and returns no result.
C5_LaunchFailureAbortsCycle ==
    (pc # "tasks" /\ \E c \in Cat : LaunchFailed(c)) =>
        /\ scrapeError = LaunchError
        /\ ~result.built

\* C5 amended: a browser launch failure in a category task fails that
\* category only: scrapeAll still returns a result, in which the category is
\* null and errors holds its entry with the launch error unmodified.
C5_LaunchFailureFailsCategory ==
    /\ \A c \in Cat : LaunchFailed(c) =>
          /\ task[c].status = "rejected"
          /\ task[c].reason = LaunchError
    /\ (pc # "tasks" /\ \E c \in Cat : LaunchFailed(c)) =>
          /\ scrapeError = NoError
          /\ result.built
          /\ \A c \in Cat : LaunchFailed(c) =>
                /\ result.data[c] = NoValue
                /\ \E i \in 1..Len(result.errors) :
                      result.errors[i] = c \o ": " \o LaunchError

C5_Witness ==
    /\ result.built
    /\ LaunchFailed("content")
    /\ task["audience"].status = "fulfilled"
    /\ task["demographics"].status = "fulfilled"

-----------------------------------------------------------------------------
(* Properties of the application run (under Spec)                          *)

\* C6 as stated: when scrapeAll fails fatally, the $START_FEATURE handler
\* that invoked it fails with that error.
C6_ScrapeFailurePropagates ==
    (scrapeError # NoError /\ pc # "scrapeFailed") =>
        /\ pc = "crashed"
        /\ handlerError = scrapeError

\* C6 amended: a fatal authentication error propagates out of the
\* $START_FEATURE handler and terminates the run; a fatal failure of
\* scrapeAll is caught by the handler, which completes normally without
\* writing a result or emitting the completion hook.
C6_AuthFatalPropagatesScrapeFatalCaught ==
    /\ (authStage \in FatalStages /\ pc # "auth") =>
          /\ pc = "crashed"
          /\ handlerError = authError
          /\ handlerError # NoError
    /\ (scrapeError # NoError /\ pc # "scrapeFailed") =>
          /\ pc \in {"finish", "done"}
          /\ handlerError = NoError
          /\ events = <<>>
          /\ ~result.built

C6_Witness ==
    /\ pc = "done"
    /\ scrapeError = MissingTokenError
    /\ handlerError = NoError

ScrapeInvoked == pc \in {"scrape", "tasks", "returned", "scrapeFailed", "finish", "done"}

\* C7: scrapeAll starts only after the authentication run has reached
\* Authenticated; when authentication ends in a fatal failure scrapeAll is
\* never invoked in that run.
C7_ScrapeOnlyAfterAuthenticated ==
    /\ ScrapeInvoked => authStage = "Authenticated" /\ ctx.authenticated
    /\ authStage \in FatalStages =>
          /\ pc \in {"auth", "crashed"}
          /\ cookies = NoBundle
          /\ scrapeError = NoError
          /\ \A c \in Cat : task[c] = IdleTask

C7_Witness ==
    /\ pc = "tasks"
    /\ authStage = "Authenticated"
    /\ "CredentialLoginAttempt" \in authVisited

CredentialsIncomplete == config.username = "" \/ config.password = ""

\* C8: when cookie restore fails validation (or no cookies are stored) and
\* the stored username or password is empty, the next stage is
\* InteractiveManualLogin, and CredentialLoginAttempt, ChallengeDetected and
\* LoginFailed are never entered.
C8_NoCredentialsGoesManual ==
    /\ [](CredentialsIncomplete =>
            authVisited \cap {"CredentialLoginAttempt", "ChallengeDetected",
                              "InteractiveChallengeResolution", "LoginFailed"} = {})
    /\ [][(/\ CredentialsIncomplete
           /\ authStage \in {"CookiesRejected", "NoStoredCookies"}
           /\ authStage' # authStage) => authStage' = "InteractiveManualLogin"]_vars

C8_Witness ==
    /\ authStage = "AwaitingManualLogin"
    /\ "CookiesRejected" \in authVisited
    /\ config.username # ""
    /\ config.password = ""

AuthFinished == pc # "boot" /\ pc # "startFeature" /\ pc # "auth"
ByCookieRestore == authVisited = {"Start", "CookieRestoreAttempt", "Authenticated"}

SavedContext == IF "AwaitingManualLogin" \in authVisited THEN "manual" ELSE "service"

-----------------------------------------------------------------------------
(* Authentication run on its own, with every bounded wait settling         *)

AuthNext ==
    \/ StartService
    \/ StartServiceFails
    \/ StartFeature
    \/ CookieRestore
    \/ SelectLogin
    \/ CredentialLogin
    \/ ChallengeRelaunch
    \/ ChallengeWait
    \/ ManualRelaunch
    \/ ManualWait
    \/ AuthResolved
    \/ AuthRejected

\* every await of the handler has a timeout, so an enabled step is taken
FairAuthSpec == Init /\ [][AuthNext]_vars /\ WF_vars(AuthNext)

-----------------------------------------------------------------------------
(* C11 *)

\* C11: whenever the run has reached Authenticated, the authenticated flag
\* is true and a page handle of a browser that holds the session token is
\* published; in a run that ended in a fatal stage the flag is not true.
C11_FlagAndPageOnSuccessOnly ==
    /\ authStage = "Authenticated" =>
          /\ ctx.authenticated
          /\ ctx.page \in BrowserIds
          /\ HasCookie(browsers[ctx.page].jar, "li_at")
    /\ authStage \in FatalStages => ~ctx.authenticated
    /\ ctx.authenticated => authStage = "Authenticated"

\* authenticated after a security challenge: the published page is the
\* headed browser's
C11_Witness ==
    /\ authStage = "Authenticated"
    /\ "InteractiveChallengeResolution" \in authVisited
    /\ ctx.authenticated
    /\ ctx.page = "challenge"

-----------------------------------------------------------------------------
(* C12 *)

CheckpointPages ==
    { "https://www.linkedin.com/checkpoint/lg/login-submit",
      "https://www.linkedin.com/uas/challenge" }

AfterChallenge ==
    {"ChallengeDetected", "InteractiveChallengeResolution",
     "InteractiveManualLogin", "AwaitingManualLogin", "Authenticated"}

\* the step of the credential login in which the wait for the feed failed
WaitForFeedFailed ==
    /\ authStage = "CredentialLoginAttempt"
    /\ authStage' # authStage
    /\ browsers'[browserContext].url # BlankUrl
    /\ browsers'[browserContext].url # LINKEDIN_FEED_URL

\* C12: with both credentials set, when the wait for the landing page fails
\* the run enters ChallengeDetected if the page is on a checkpoint/challenge
\* URL and LoginFailed with an error otherwise; after LoginFailed no other
\* stage is entered and the run does not go on to scrape.
C12_WaitFailureClassified ==
    /\ [][WaitForFeedFailed =>
            /\ hasCredentials(config.username, config.password)
            /\ IF browsers'[browserContext].url \in CheckpointPages
               THEN authStage' = "ChallengeDetected" /\ authError' = NoError
               ELSE authStage' = "LoginFailed" /\ authError' # NoError]_vars
    /\ []("LoginFailed" \in authVisited =>
            /\ authStage = "LoginFailed"
            /\ authVisited \cap AfterChallenge = {}
            /\ pc \in {"auth", "crashed"}
            /\ ~ctx.authenticated)

\* the wait failed on the challenge page and the run moved to ChallengeDetected
C12_Witness ==
    /\ authStage = "ChallengeDetected"
    /\ browsers[browserContext].url = "https://www.linkedin.com/uas/challenge"
    /\ config.username # "" /\ config.password # ""

-----------------------------------------------------------------------------
(* C13 *)

TerminalStages == {"Authenticated"} \cup FatalStages

\* C13: every authentication run that starts reaches Authenticated or a
\* fatal stage, and no stage is entered a second time in a run.
C13_TerminatesWithoutRetry ==
    /\ (pc = "auth") ~> (authStage \in TerminalStages)
    /\ [][authStage' # authStage =>
            /\ authStage' \notin authVisited
            /\ authStage \notin TerminalStages]_vars

\* a run that tried cookie restore, credential login and challenge
\* resolution, each once, and ended
C13_Witness ==
    /\ authStage \in TerminalStages
    /\ {"CookieRestoreAttempt", "CredentialLoginAttempt",
        "InteractiveChallengeResolution"} \subseteq authVisited

-----------------------------------------------------------------------------
(* loadCookies on its own: scrapeLinkedInAnalytics called with any file     *)

MaxEntries == 2

FieldOrder == <<"li_at", "JSESSIONID", "liap", "li_rm", "bcookie">>
FieldNames == {FieldOrder[i] : i \in 1..Len(FieldOrder)}
FieldValues == {"", "A", "B"}

\* the key/value pairs of a flat object, one per key
RECURSIVE ObjectEntries(_, _)
ObjectEntries(obj, i) ==
    IF i > Len(FieldOrder) THEN <<>>
    ELSE (IF FieldOrder[i] \in DOMAIN obj
          THEN <<Cookie(FieldOrder[i], obj[FieldOrder[i]], NoDomain)>>
          ELSE <<>>) \o ObjectEntries(obj, i + 1)

ObjectFiles ==
    { FileOf("object", ObjectEntries(obj, 1)) :
        obj \in UNION { [ks -> {"", "A"}] : ks \in SUBSET FieldNames } }

ArrayEntries == { Cookie(n, v, LINKEDIN_DOMAIN) : n \in FieldNames, v \in FieldValues }

ArrayFiles ==
    { FileOf("array", es) :
        es \in UNION { [1..n -> ArrayEntries] : n \in 0..MaxEntries } }

LoadFiles ==
    ObjectFiles \cup ArrayFiles \cup
    { AbsentFile, FileOf("garbage", <<>>), FileOf("badarray", <<>>),
      FileOf("scalar", <<>>) }

LoadInit ==
    /\ pc = "scrape"
    /\ config = [username |-> "", password |-> "", headless |-> TRUE,
                 loginTimeoutSeconds |-> 120]
    /\ cookieFile \in LoadFiles
    /\ initialFile = cookieFile
    /\ cookieWrites = 0
    /\ browsers = [b \in BrowserIds |-> Unlaunched]
    /\ ctx = [instance |-> NoBrowser, context |-> NoBrowser, headless |-> TRUE,
              page |-> NoBrowser, authenticated |-> FALSE]
    /\ browserContext = NoBrowser
    /\ authStage = "NotStarted"
    /\ authVisited = {}
    /\ authError = NoError
    /\ cookies = NoBundle
    /\ task = [c \in Cat |-> IdleTask]
    /\ scrapeError = NoError
    /\ result = NoResult
    /\ handlerError = NoError
    /\ events = <<>>
    /\ call = NoCall

LoadNext == ScrapeStart

LoadSpec == LoadInit /\ [][LoadNext]_vars

\* loadCookies has returned or thrown
LoadDone == pc # "scrape"
LoadSucceeded == pc = "tasks"
LoadFailed == pc = "scrapeFailed" /\ cookies = NoBundle /\ scrapeError # NoError

\* the file has an entry of that name and value
Holds(file, n, v) ==
    \E i \in 1..Len(file.entries) :
        file.entries[i].name = n /\ file.entries[i].value = v

Mentions(file, n) == \E v \in FieldValues : Holds(file, n, v)

-----------------------------------------------------------------------------
(* C14 *)

\* C14: loading a flat object with a non-empty li_at returns a bundle whose
\* li_at is the file's, whose optional fields are exactly those of the file
\* with the file's values, and which has no other key.
C14_FlatObjectLoaded ==
    (LoadDone /\ cookieFile.kind = "object"
       /\ \E v \in FieldValues \ {""} : Holds(cookieFile, "li_at", v)) =>
        /\ LoadSucceeded
        /\ DOMAIN cookies \subseteq {"li_at", "JSESSIONID", "liap", "li_rm"}
        /\ "li_at" \in DOMAIN cookies
        /\ \A n \in {"JSESSIONID", "liap", "li_rm"} :
              n \in DOMAIN cookies <=> Mentions(cookieFile, n)
        /\ \A n \in DOMAIN cookies : Holds(cookieFile, n, cookies[n])

\* a flat object with li_at, one optional field and an unknown field is loaded
C14_Witness ==
    /\ LoadSucceeded
    /\ cookieFile.kind = "object"
    /\ Mentions(cookieFile, "bcookie")
    /\ Mentions(cookieFile, "liap")
    /\ ~Mentions(cookieFile, "JSESSIONID")
    /\ DOMAIN cookies = {"li_at", "liap"}

-----------------------------------------------------------------------------
(* C15 *)

\* C15: loading a cookie array succeeds exactly when the array has an entry
\* named li_at with a non-empty value, the bundle then holding values of
\* entries of the file for li_at and the optional fields present and nothing
\* else; an array without such an entry fails with the missing-token error.
C15_ArrayLoadedIffTokenEntry ==
    (LoadDone /\ cookieFile.kind = "array") =>
        IF \E v \in FieldValues \ {""} : Holds(cookieFile, "li_at", v)
        THEN /\ LoadSucceeded
             /\ cookies["li_at"] # ""
             /\ DOMAIN cookies \subseteq {"li_at", "JSESSIONID", "liap", "li_rm"}
             /\ \A n \in {"JSESSIONID", "liap", "li_rm"} :
                   n \in DOMAIN cookies <=> Mentions(cookieFile, n)
             /\ \A n \in DOMAIN cookies : Holds(cookieFile, n, cookies[n])
        ELSE LoadFailed /\ Includes(scrapeError, "missing required")

-----------------------------------------------------------------------------
(* C16 *)

\* C16: a missing file fails with a "not found" error, a file that is not
\* JSON with a "not valid" error, a flat object without li_at or with an
\* empty li_at with a validation error; in each case no bundle is returned
\* and no task is started.
C16_FailuresClassified ==
    LoadDone =>
        /\ cookieFile.kind = "absent" =>
              LoadFailed /\ Includes(scrapeError, "not found")
        /\ cookieFile.kind = "garbage" =>
              LoadFailed /\ Includes(scrapeError, "not valid")
        /\ (cookieFile.kind = "object"
              /\ \A v \in FieldValues \ {""} : ~Holds(cookieFile, "li_at", v)) =>
              LoadFailed /\ Includes(scrapeError, "validation failed")
        /\ LoadFailed => \A c \in Cat : task[c] = IdleTask

\* a file that is not JSON has been rejected
C16_Witness ==
    /\ LoadFailed
    /\ cookieFile.kind = "garbage"
    /\ Includes(scrapeError, "not valid JSON")

-----------------------------------------------------------------------------
(* linkedin-scraper: extractCsrfToken                                      *)

Quote == "\""
LineTerminators == {"\n", "\r"}

\* a mutant of extractCsrfToken: the value is passed through
extractCsrfTokenRaw(jsessionid) == jsessionid

\* jsessionid.replace(/^"(.*)"$/, '$1'): `.` matches no line terminator
extractCsrfToken(jsessionid) ==
    LET n == Len(jsessionid)
    IN IF /\ n >= 2
          /\ SubSeq(jsessionid, 1, 1) = Quote
          /\ SubSeq(jsessionid, n, n) = Quote
          /\ \A i \in 2..(n - 1) : SubSeq(jsessionid, i, i) \notin LineTerminators
       THEN SubSeq(jsessionid, 2, n - 1)
       ELSE jsessionid

MaxTokenLen == 4

TokenChars == {Quote, "a", ":", "\n"}

RECURSIVE StringsUpTo(_, _)
StringsUpTo(chars, n) ==
    IF n = 0 THEN {""}
    ELSE LET shorter == StringsUpTo(chars, n - 1)
         IN shorter \cup {s \o c : s \in shorter, c \in chars}

\* everything but `call` is as in a process that has not started
IdleProgram ==
    /\ pc = "boot"
    /\ config = [username |-> "", password |-> "", headless |-> TRUE,
                 loginTimeoutSeconds |-> 120]
    /\ cookieFile = AbsentFile
    /\ initialFile = cookieFile
    /\ cookieWrites = 0
    /\ browsers = [b \in BrowserIds |-> Unlaunched]
    /\ ctx = [instance |-> NoBrowser, context |-> NoBrowser, headless |-> TRUE,
              page |-> NoBrowser, authenticated |-> FALSE]
    /\ browserContext = NoBrowser
    /\ authStage = "NotStarted"
    /\ authVisited = {}
    /\ authError = NoError
    /\ cookies = NoBundle
    /\ task = [c \in Cat |-> IdleTask]
    /\ scrapeError = NoError
    /\ result = NoResult
    /\ handlerError = NoError
    /\ events = <<>>

CallFrame == UNCHANGED <<pc, config, cookieFile, initialFile, cookieWrites,
                         browsers, ctx, browserContext, authStage, authVisited,
                         authError, cookies, task, scrapeError, result,
                         handlerError, events>>

CsrfInit ==
    /\ IdleProgram
    /\ call \in { [fn |-> "extractCsrfToken", arg |-> s, ret |-> <<>>] :
                    s \in StringsUpTo(TokenChars, MaxTokenLen) }

\* extractCsrfToken applied to the argument, then to its own result
ExtractCsrfTokenCall ==
    /\ call.fn = "extractCsrfToken"
    /\ Len(call.ret) < 2
    /\ call' = [call EXCEPT !.ret =
                  Append(@, extractCsrfToken(IF @ = <<>> THEN call.arg ELSE @[Len(@)]))]
    /\ CallFrame

CsrfNext == ExtractCsrfTokenCall

CsrfSpec == CsrfInit /\ [][CsrfNext]_vars

-----------------------------------------------------------------------------
(* C17 *)

\* a cookie value: no line terminator in it
IsToken(s) == \A i \in 1..Len(s) : SubSeq(s, i, i) \notin LineTerminators

Wrapped(s) ==
    Len(s) >= 2 /\ SubSeq(s, 1, 1) = Quote /\ SubSeq(s, Len(s), Len(s)) = Quote

\* C17: for a token wrapped in one pair of double quotes extractCsrfToken
\* returns the token without the pair; a token that is not wrapped, and the
\* empty string, are returned as they are; and applying extractCsrfToken to
\* the result of any of these returns that result again.
C17_UnwrapsOnePairIdempotent ==
    (call.fn = "extractCsrfToken" /\ IsToken(call.arg) /\ Len(call.ret) >= 1) =>
        /\ call.arg = "" => call.ret[1] = ""
        /\ ~Wrapped(call.arg) => call.ret[1] = call.arg
        /\ Wrapped(call.arg) => call.arg = Quote \o call.ret[1] \o Quote
        /\ (Len(call.ret) = 2
              /\ (Wrapped(call.arg) => ~Wrapped(call.ret[1]))) =>
              call.ret[2] = call.ret[1]

\* a token in one pair of quotes was unwrapped, and unwrapping the result
\* again changed nothing
C17_Witness ==
    /\ call.fn = "extractCsrfToken"
    /\ call.arg = "\"a:\""
    /\ call.ret = <<"a:", "a:">>

-----------------------------------------------------------------------------
(* linkedin-scraper: isBlocked, extractChartData                           *)

\* isBlocked(page): page.url() includes one of the wall markers
isBlocked(url) ==
    \/ Includes(url, "/checkpoint/")
    \/ Includes(url, "/login")
    \/ Includes(url, "/authwall")
    \/ Includes(url, "/uas/login")

Digits == {"0", "1", "2", "3", "4", "5", "6", "7", "8", "9"}
Letters ==
    {"a", "b", "c", "d", "e", "f", "g", "h", "i", "j", "k", "l", "m",
     "n", "o", "p", "q", "r", "s", "t", "u", "v", "w", "x", "y", "z",
     "A", "B", "C", "D", "E", "F", "G", "H", "I", "J", "K", "L", "M",
     "N", "O", "P", "Q", "R", "S", "T", "U", "V", "W", "X", "Y", "Z"}
WordChars == Digits \cup Letters \cup {"_"}      \* \w
SpaceChars == {" ", "\t", "\n", "\r", "\f"}      \* \s

\* the character of s at position i, "" past the end
At(s, i) == IF i \in 1..Len(s) THEN SubSeq(s, i, i) ELSE ""

\* position after the longest run of characters of `class` that starts at i
Span(s, i, class) ==
    IF i > Len(s) THEN i
    ELSE LET stops == {j \in i..Len(s) : SubSeq(s, j, j) \notin class}
         IN IF stops = {} THEN Len(s) + 1
            ELSE CHOOSE j \in stops : \A k \in stops : j <= k

\* position of the first "," at or after i, Len(s) + 1 if there is none
NextComma(s, i) ==
    IF i > Len(s) THEN i
    ELSE LET commas == {j \in i..Len(s) : SubSeq(s, j, j) = ","}
         IN IF commas = {} THEN Len(s) + 1
            ELSE CHOOSE j \in commas : \A k \in commas : j <= k

NoMatch == [matched |-> FALSE, month |-> "", day |-> "", year |-> "", rawValue |-> ""]

\* label.match(/^\d+\.\s+\w+,\s+([\w]+ \d+, \d{4}),\s+[^,]+,\s+([\d,]+)/):
\* group 1 is kept as its three parts, group 2 is rawValue
MatchLabel(label) ==
    LET index   == Span(label, 1, Digits)                \* ^\d+
        gap1    == Span(label, index + 1, SpaceChars)    \* \. \s+
        weekday == Span(label, gap1, WordChars)          \* \w+
        gap2    == Span(label, weekday + 1, SpaceChars)  \* , \s+
        month   == Span(label, gap2, WordChars)          \* [\w]+
        day     == Span(label, month + 1, Digits)        \* " " \d+
        year    == day + 2                               \* ", " \d{4}
        gap3    == year + 5                              \* ,
        comma   == NextComma(label, gap3)                \* \s+ [^,]+ ,
        gap4    == Span(label, comma + 1, SpaceChars)    \* \s+
        value   == Span(label, gap4, Digits \cup {","})  \* [\d,]+
    IN IF /\ index > 1
          /\ At(label, index) = "."
          /\ gap1 > index + 1
          /\ weekday > gap1
          /\ At(label, weekday) = ","
          /\ gap2 > weekday + 1
          /\ month > gap2
          /\ At(label, month) = " "
          /\ day > month + 1
          /\ At(label, day) = ","
          /\ At(label, day + 1) = " "
          /\ \A k \in 0..3 : At(label, year + k) \in Digits
          /\ At(label, year + 4) = ","
          /\ At(label, gap3) \in SpaceChars
          /\ comma >= gap3 + 2
          /\ comma <= Len(label)
          /\ gap4 > comma + 1
          /\ value > gap4
       THEN [matched |-> TRUE,
             month |-> SubSeq(label, gap2, month - 1),
             day |-> SubSeq(label, month + 1, day - 1),
             year |-> SubSeq(label, year, year + 3),
             rawValue |-> SubSeq(label, gap4, value - 1)]
       ELSE NoMatch

\* the value of a parseInt that found no digit (values read are never negative)
NaN == -1

DigitValue(c) == CHOOSE d \in 0..9 : SubSeq("0123456789", d + 1, d + 1) = c

RECURSIVE ToNumber(_)
ToNumber(digits) ==
    IF digits = "" THEN 0
    ELSE ToNumber(SubSeq(digits, 1, Len(digits) - 1)) * 10
           + DigitValue(SubSeq(digits, Len(digits), Len(digits)))

\* rawValue.replace(/,/g, '')
RECURSIVE RemoveCommas(_)
RemoveCommas(s) ==
    IF s = "" THEN ""
    ELSE (IF SubSeq(s, 1, 1) = "," THEN "" ELSE SubSeq(s, 1, 1))
           \o RemoveCommas(SubSeq(s, 2, Len(s)))

\* parseInt(digits, 10) of a string of digits
parseInt(digits) == IF digits = "" THEN NaN ELSE ToNumber(digits)

MonthNames == <<"Jan", "Feb", "Mar", "Apr", "May", "Jun",
                "Jul", "Aug", "Sep", "Oct", "Nov", "Dec">>

IsLeapYear(y) == (y % 4 = 0 /\ y % 100 # 0) \/ y % 400 = 0

DaysInMonth(m, y) ==
    IF m = 2 THEN (IF IsLeapYear(y) THEN 29 ELSE 28)
    ELSE IF m \in {4, 6, 9, 11} THEN 30 ELSE 31

\* new Date("Mon D, YYYY"): local midnight of that day; a day past the end of
\* the month runs over into the next month; an unknown month word or a day
\* outside 1..31 gives an Invalid Date
NewDate(month, day, year) ==
    LET known == {m \in 1..12 : MonthNames[m] = month}
        d == ToNumber(day)
        y == ToNumber(year)
    IN IF known = {} \/ d < 1 \/ d > 31
       THEN [valid |-> FALSE, y |-> 0, m |-> 0, d |-> 0]
       ELSE LET m == CHOOSE k \in known : TRUE
            IN IF d <= DaysInMonth(m, y)
               THEN [valid |-> TRUE, y |-> y, m |-> m, d |-> d]
               ELSE [valid |-> TRUE, y |-> IF m = 12 THEN y + 1 ELSE y,
                     m |-> IF m = 12 THEN 1 ELSE m + 1,
                     d |-> d - DaysInMonth(m, y)]

DigitString(d) == SubSeq("0123456789", d + 1, d + 1)
Pad2(n) == DigitString((n \div 10) % 10) \o DigitString(n % 10)

\* dateObj.toISOString().slice(0, 10): the session's time zone is
\* America/New_York, so local midnight is the same day in UTC
ToIsoDate(date) ==
    Pad2(date.y \div 100) \o Pad2(date.y % 100) \o "-" \o Pad2(date.m)
      \o "-" \o Pad2(date.d)

\* extractChartData(page, metric) over the aria-labels of the page, in
\* document order
RECURSIVE extractChartData(_, _)
extractChartData(labels, metric) ==
    IF labels = <<>> THEN <<>>
    ELSE LET label == Head(labels)
             match == MatchLabel(label)
             dateObj == NewDate(match.month, match.day, match.year)
         IN (IF Includes(label, metric) /\ match.matched /\ dateObj.valid
             THEN <<[date |-> ToIsoDate(dateObj),
                     value |-> parseInt(RemoveCommas(match.rawValue))]>>
             ELSE <<>>) \o extractChartData(Tail(labels), metric)

-----------------------------------------------------------------------------
(* linkedin-scraper: scrapeContentAnalytics                                 *)

CONTENT_ANALYTICS_URL ==
    "https://www.linkedin.com/analytics/creator/content/?lineChartType=daily&timeRange=past_28_days"

ImpressionsUrl == CONTENT_ANALYTICS_URL \o "&metricType=IMPRESSIONS"
EngagementsUrl == CONTENT_ANALYTICS_URL \o "&metricType=ENGAGEMENTS"

\* where LinkedIn redirects a session it does not accept
WallUrls ==
    { "https://www.linkedin.com/login?session_redirect=analytics",
      "https://www.linkedin.com/checkpoint/challenge/AgE",
      "https://www.linkedin.com/authwall?trk=analytics",
      "https://www.linkedin.com/uas/login" }

\* a page.goto: rejected, or resolved on `url` with these aria-labels
GotoRejected == [ok |-> FALSE, url |-> BlankUrl, labels |-> <<>>]
Landed(url, labels) == [ok |-> TRUE, url |-> url, labels |-> labels]

Fulfilled(v) == [ok |-> TRUE, value |-> v, error |-> NoError]
Failed(msg) == [ok |-> FALSE, value |-> <<>>, error |-> msg]

\* series.reduce((sum, m) => sum + m.value, 0); a NaN makes the sum NaN
RECURSIVE Total(_)
Total(series) ==
    IF series = <<>> THEN 0
    ELSE LET rest == Total(Tail(series))
         IN IF Head(series).value = NaN \/ rest = NaN THEN NaN
            ELSE Head(series).value + rest

\* a mutant of RoundedRates: the quotient is cut off after two decimals
TruncatedRates(totalEngagements, totalImpressions) ==
    {(totalEngagements * 10000) \div totalImpressions}

\* Math.round((totalEngagements / totalImpressions) * 10000), the rate in
\* hundredths of a percent. The product is a double: when the exact quotient
\* lies halfway between two integers the double can fall on either side.
RoundedRates(totalEngagements, totalImpressions) ==
    LET twice == 2 * totalEngagements * 10000
        down == twice \div (2 * totalImpressions)
    IN IF twice % (2 * totalImpressions) = totalImpressions THEN {down, down + 1}
       ELSE IF twice % (2 * totalImpressions) > totalImpressions THEN {down + 1}
       ELSE {down}

\* totalImpressions > 0 ? Math.round(...) / 100 : 0   (NaN > 0 is false)
EngagementRates(totalEngagements, totalImpressions) ==
    IF totalImpressions = NaN \/ totalImpressions <= 0 THEN {0}
    ELSE IF totalEngagements = NaN THEN {NaN}
    ELSE RoundedRates(totalEngagements, totalImpressions)

RenderTimeout == "TimeoutError: page.waitForFunction: Timeout 20000ms exceeded."
SelectorTimeout == "TimeoutError: page.waitForSelector: Timeout 20000ms exceeded."

\* page.waitForFunction(() => document.querySelectorAll(
\* '[role="img"][aria-label]').length > 0, { timeout: 20_000 }): resolves
\* (NoError) when the page carries such an element, rejects when none shows
\* up within the timeout
waitForFunction(labels) == IF Len(labels) > 0 THEN NoError ELSE RenderTimeout

\* page.waitForSelector('main', { timeout: 20_000 })
waitForSelector(main) == IF main THEN NoError ELSE SelectorTimeout

\* a mutant of Caught: the rejection of the wait is not caught
Uncaught(rejection) == rejection

\* promise.catch(() => undefined): resolved whatever the promise did
Caught(rejection) == NoError

\* scrapeContentAnalytics(page) when its two page.goto calls end as `first`
\* and `second`: the set of its possible outcomes
scrapeContentAnalytics(first, second) ==
    IF ~first.ok THEN {Failed(NavigationError)}
    ELSE IF isBlocked(first.url) THEN {Failed(BlockedError)}
    ELSE IF Caught(waitForFunction(first.labels)) # NoError
    THEN {Failed(Caught(waitForFunction(first.labels)))}
    ELSE IF ~second.ok THEN {Failed(NavigationError)}
    ELSE IF Caught(waitForFunction(second.labels)) # NoError
    THEN {Failed(Caught(waitForFunction(second.labels)))}
    ELSE LET impressions == extractChartData(first.labels, "Impressions")
             engagements == extractChartData(second.labels, "Engagements")
             totalImpressions == Total(impressions)
             totalEngagements == Total(engagements)
         IN { Fulfilled([impressions |-> impressions,
                         engagements |-> engagements,
                         totalImpressions |-> totalImpressions,
                         totalEngagements |-> totalEngagements,
                         engagementRate |-> rate]) :
                rate \in EngagementRates(totalEngagements, totalImpressions) }

-----------------------------------------------------------------------------
(* scrapeContentAnalytics on its own, on any page                          *)

MaxLabels == 2

\* aria-labels a page can carry, each with what it says when read as
\* "<index>. <weekday>, <month> <day>, <year>, <metric-name>, <value>[, ...]":
\* isPoint tells whether it is a data point of that form
Point(text, date, value) == [text |-> text, isPoint |-> TRUE, date |-> date, value |-> value]
Other(text) == [text |-> text, isPoint |-> FALSE, date |-> "", value |-> 0]

ImpressionLabels ==
    { Point("1. Monday, Jan 1, 2024, Impressions, 100", "2024-01-01", 100),
      Point("2. Tuesday, Jan 2, 2024, Impressions, 200", "2024-01-02", 200),
      Point("3.  Wednesday, Feb 18, 2026, Impressions, 9,228, increased by 659%, previous day",
            "2026-02-18", 9228),
      Point("4. Sunday, Dec 31, 2023, Impressions, 0", "2023-12-31", 0),
      Point("5. Monday, Feb 29, 2024, Impressions, 3", "2024-02-29", 3),
      Point("6. Friday, Mar 1, 2024, Impressions, 32", "2024-03-01", 32),
      Point("1. Monday, Jan 1, 2024, Engagements, 3", "2024-01-01", 3),
      Point("1. Monday, Jan 1, 2024, Engagements, 5, Impressions up", "2024-01-01", 5),
      Other("1. Monday, Jan 1, 2024, impressions, 100"),
      Other("7. Friday, Foo 1, 2024, Impressions, 7"),
      Other("1. Monday, Jan 1, 2024, Impressions, n/a"),
      Other("1. Monday, Jan 1, 2024, Impressions, ,"),
      Other("Impressions chart"),
      Other("") }

EngagementLabels ==
    { Point("1. Monday, Jan 1, 2024, Engagements, 3", "2024-01-01", 3),
      Point("2. Tuesday, Jan 2, 2024, Engagements, 1", "2024-01-02", 1),
      Point("3. Wednesday, Jan 3, 2024, Engagements, 2", "2024-01-03", 2),
      Point("1. Monday, Jan 1, 2024, Impressions, 100", "2024-01-01", 100),
      Other("Engagements chart") }

AllLabels == ImpressionLabels \cup EngagementLabels

\* the pages with up to n of these labels, as the texts the page carries
TextsOf(labels, n) == UNION { [1..k -> {l.text : l \in labels}] : k \in 0..n }

EngagementPages ==
    { <<>>,
      <<"1. Monday, Jan 1, 2024, Engagements, 3">>,
      <<"2. Tuesday, Jan 2, 2024, Engagements, 1">>,
      <<"3. Wednesday, Jan 3, 2024, Engagements, 2">>,
      <<"1. Monday, Jan 1, 2024, Engagements, 3",
        "2. Tuesday, Jan 2, 2024, Engagements, 1">>,
      <<"Engagements chart", "1. Monday, Jan 1, 2024, Impressions, 100",
        "3. Wednesday, Jan 3, 2024, Engagements, 2">> }

\* how a navigation to `url` can end: rejected, redirected to a wall (no
\* chart on it), or on the requested page with one of `pages`
Visits(url, pages) ==
    {GotoRejected} \cup {Landed(w, <<>>) : w \in WallUrls}
      \cup {Landed(url, labels) : labels \in pages}

ContentInit ==
    /\ IdleProgram
    /\ call \in { [fn |-> "scrapeContentAnalytics",
                   arg |-> [first |-> first, second |-> second],
                   ret |-> <<>>] :
                    first \in Visits(ImpressionsUrl, TextsOf(ImpressionLabels, MaxLabels)),
                    second \in Visits(EngagementsUrl, EngagementPages) }

ScrapeContentCall ==
    /\ call.fn = "scrapeContentAnalytics"
    /\ call.ret = <<>>
    /\ \E outcome \in scrapeContentAnalytics(call.arg.first, call.arg.second) :
          call' = [call EXCEPT !.ret = <<outcome>>]
    /\ CallFrame

ContentNext == ScrapeContentCall

ContentSpec == ContentInit /\ [][ContentNext]_vars

ContentReturned == call.fn = "scrapeContentAnalytics" /\ call.ret # <<>>
firstVisit == call.arg.first
secondVisit == call.arg.second
returned == call.ret[1]

-----------------------------------------------------------------------------
(* C18 *)

OnWall(visit) == visit.ok /\ visit.url \in WallUrls

\* C18: when the first navigation of the content extractor, or its second
\* one, ends on a login/checkpoint/authwall URL, the extractor fails with
\* the session-blocked error and returns no data.
C18_BlockedVisitFailsFast ==
    (ContentReturned
       /\ (OnWall(firstVisit) \/ (firstVisit.ok /\ ~OnWall(firstVisit) /\ OnWall(secondVisit)))) =>
        /\ ~returned.ok
        /\ Includes(returned.error, "blocked the session")

-----------------------------------------------------------------------------
(* C19 *)

Truth(text) == CHOOSE l \in AllLabels : l.text = text

\* the data points of the labels that are of the label form and contain
\* the metric name, in page order
RECURSIVE ExpectedSeries(_, _)
ExpectedSeries(texts, metric) ==
    IF texts = <<>> THEN <<>>
    ELSE (IF Truth(Head(texts)).isPoint /\ Includes(Head(texts), metric)
          THEN <<[date |-> Truth(Head(texts)).date,
                  value |-> Truth(Head(texts)).value]>>
          ELSE <<>>) \o ExpectedSeries(Tail(texts), metric)

RECURSIVE SumOfValues(_)
SumOfValues(series) ==
    IF series = <<>> THEN 0 ELSE Head(series).value + SumOfValues(Tail(series))

\* C19: on pages that are not walls the content extractor returns, whatever
\* the labels, and its impressions (engagements) series is the sequence of
\* data points {date, integer value} of exactly the labels of the first
\* (second) page that are of the label form and contain "Impressions"
\* ("Engagements"), in page order; the totals are the sums of the values.
C19_SeriesAreMatchingLabels ==
    (ContentReturned /\ firstVisit.ok /\ ~OnWall(firstVisit) /\ secondVisit.ok /\ ~OnWall(secondVisit)) =>
        /\ returned.ok
        /\ returned.value.impressions = ExpectedSeries(firstVisit.labels, "Impressions")
        /\ returned.value.engagements = ExpectedSeries(secondVisit.labels, "Engagements")
        /\ \A i \in 1..Len(returned.value.impressions) :
              returned.value.impressions[i].value \in Nat
        /\ returned.value.totalImpressions = SumOfValues(returned.value.impressions)
        /\ returned.value.totalEngagements = SumOfValues(returned.value.engagements)
        /\ returned.value.totalImpressions \in Nat

-----------------------------------------------------------------------------
(* C20 *)

\* C20: with numeric totals, engagementRate is 0 when totalImpressions is 0,
\* and otherwise is a number of hundredths that is nearest to
\* totalEngagements / totalImpressions * 100 (in hundredths: the rate r with
\* |r * impressions - engagements * 10000| at most half of impressions).
C20_RateRoundedOrZero ==
    (ContentReturned /\ returned.ok
       /\ returned.value.totalImpressions \in Nat
       /\ returned.value.totalEngagements \in Nat) =>
        LET i == returned.value.totalImpressions
            e == returned.value.totalEngagements
            r == returned.value.engagementRate
            diff == r * i - e * 10000
        IN /\ i = 0 => r = 0
           /\ i > 0 => /\ r \in Nat
                       /\ 2 * diff <= i
                       /\ 2 * (0 - diff) <= i

\* 2 engagements on 3 impressions: 66.67 percent
C20_Witness ==
    /\ ContentReturned /\ returned.ok
    /\ returned.value.totalImpressions = 3
    /\ returned.value.totalEngagements = 2
    /\ returned.value.engagementRate = 6667

-----------------------------------------------------------------------------
(* linkedin-scraper: scrapeAudienceAnalytics                                *)

AUDIENCE_ANALYTICS_URL ==
    "https://www.linkedin.com/analytics/creator/audience/?lineChartType=daily&timeRange=past_28_days"

UpperCase == "ABCDEFGHIJKLMNOPQRSTUVWXYZ"
LowerCase == "abcdefghijklmnopqrstuvwxyz"

\* String.prototype.toLowerCase (ASCII letters)
RECURSIVE ToLowerCase(_)
ToLowerCase(s) ==
    IF s = "" THEN ""
    ELSE LET c == SubSeq(s, 1, 1)
             at == {k \in 1..26 : SubSeq(UpperCase, k, k) = c}
         IN (IF at = {} THEN c
             ELSE LET k == CHOOSE k \in at : TRUE IN SubSeq(LowerCase, k, k))
              \o ToLowerCase(SubSeq(s, 2, Len(s)))

\* String.prototype.trim
RECURSIVE Trim(_)
Trim(s) ==
    IF s = "" THEN ""
    ELSE IF SubSeq(s, 1, 1) \in SpaceChars THEN Trim(SubSeq(s, 2, Len(s)))
    ELSE IF SubSeq(s, Len(s), Len(s)) \in SpaceChars
         THEN Trim(SubSeq(s, 1, Len(s) - 1))
    ELSE s

\* extractFollowerGrowth over the aria-labels of the page, in document order
RECURSIVE extractFollowerGrowth(_)
extractFollowerGrowth(labels) ==
    IF labels = <<>> THEN <<>>
    ELSE LET label == Head(labels)
             match == MatchLabel(label)
             dateObj == NewDate(match.month, match.day, match.year)
         IN (IF /\ Includes(ToLowerCase(label), "followers")
                /\ match.matched
                /\ dateObj.valid
             THEN <<[date |-> ToIsoDate(dateObj),
                     value |-> parseInt(RemoveCommas(match.rawValue))]>>
             ELSE <<>>) \o extractFollowerGrowth(Tail(labels))

\* /^[\d,]+$/.test(text)
IsFormattedNumber(text) ==
    /\ text # ""
    /\ \A i \in 1..Len(text) : SubSeq(text, i, i) \in Digits \cup {","}

\* a mutant of LargestOf: the last qualifying paragraph wins
LastOf(paragraphs, largest) ==
    IF paragraphs = <<>> THEN largest
    ELSE LET text == Trim(paragraphs[Len(paragraphs)])
             value == parseInt(RemoveCommas(text))
         IN IF IsFormattedNumber(text) /\ value # NaN THEN value
            ELSE largest

\* the loop of extractLifetimeFollowerCount from `largest` on
RECURSIVE LargestOf(_, _)
LargestOf(paragraphs, largest) ==
    IF paragraphs = <<>> THEN largest
    ELSE LET text == Trim(Head(paragraphs))
             value == IF IsFormattedNumber(text)
                      THEN parseInt(RemoveCommas(text)) ELSE NaN
         IN LargestOf(Tail(paragraphs),
                      IF IsFormattedNumber(text) /\ value # NaN /\ value > largest
                      THEN value ELSE largest)

\* extractLifetimeFollowerCount over the textContent of the page's
\* paragraphs, in document order
extractLifetimeFollowerCount(paragraphs) == LargestOf(paragraphs, 0)

\* a navigation that resolved on `url` with these aria-labels and paragraphs
LandedOn(url, labels, paragraphs) ==
    [ok |-> TRUE, url |-> url, labels |-> labels, paragraphs |-> paragraphs]

\* scrapeAudienceAnalytics(page) when its page.goto ends as `visit`
scrapeAudienceAnalytics(visit) ==
    IF ~visit.ok THEN Failed(NavigationError)
    ELSE IF isBlocked(visit.url) THEN Failed(BlockedError)
    ELSE IF Caught(waitForFunction(visit.labels)) # NoError
    THEN Failed(Caught(waitForFunction(visit.labels)))
    ELSE Fulfilled([followerGrowth |-> extractFollowerGrowth(visit.labels),
                    lifetimeFollowerCount |->
                        extractLifetimeFollowerCount(visit.paragraphs)])

-----------------------------------------------------------------------------
(* scrapeAudienceAnalytics on its own, on any page                         *)

MaxParagraphs == 2

\* textContent of paragraphs a page can carry, each with what it shows: a
\* formatted integer (its value) or something else
Count(text, value) == [text |-> text, isCount |-> TRUE, value |-> value]
Prose(text) == [text |-> text, isCount |-> FALSE, value |-> 0]

Paragraphs ==
    { Count("1,746", 1746),
      Count("49", 49),
      Count("\n  2,000  ", 2000),
      Count("0", 0),
      Count("007", 7),
      Prose("5,000 followers"),
      Prose("12.5"),
      Prose("1 000"),
      Prose("-7"),
      Prose(","),
      Prose("") }

FollowerPages ==
    { <<>>,
      <<"3.  Wednesday, Feb 18, 2026, New followers, 49, increased by 69%, previous day">>,
      <<"1. Monday, Jan 1, 2024, New followers, 1,200",
        "Followers chart",
        "2. Tuesday, Jan 2, 2024, Impressions, 200",
        "3. Wednesday, Jan 3, 2024, Total Followers, 7">> }

AudienceVisits ==
    {[ok |-> FALSE, url |-> BlankUrl, labels |-> <<>>, paragraphs |-> <<>>]}
      \cup {LandedOn(w, <<>>, <<>>) : w \in WallUrls}
      \cup {LandedOn(AUDIENCE_ANALYTICS_URL, labels, paragraphs) :
              labels \in FollowerPages,
              paragraphs \in TextsOf(Paragraphs, MaxParagraphs)}

AudienceInit ==
    /\ IdleProgram
    /\ call \in { [fn |-> "scrapeAudienceAnalytics", arg |-> visit, ret |-> <<>>] :
                    visit \in AudienceVisits }

ScrapeAudienceCall ==
    /\ call.fn = "scrapeAudienceAnalytics"
    /\ call.ret = <<>>
    /\ call' = [call EXCEPT !.ret = <<scrapeAudienceAnalytics(call.arg)>>]
    /\ CallFrame

AudienceNext == ScrapeAudienceCall

AudienceSpec == AudienceInit /\ [][AudienceNext]_vars

AudienceReturned == call.fn = "scrapeAudienceAnalytics" /\ call.ret # <<>>

-----------------------------------------------------------------------------
(* C21 *)

\* the values of the paragraphs that show a formatted integer
CountsOn(paragraphs) ==
    { p.value : p \in {q \in Paragraphs : q.isCount
                         /\ \E i \in 1..Len(paragraphs) : paragraphs[i] = q.text} }

\* C21: lifetimeFollowerCount is the largest value among the paragraphs
\* whose text is only digits and group separators and shows an integer,
\* whatever other paragraphs the page has, and 0 when there is none.
C21_LifetimeCountIsLargest ==
    (AudienceReturned /\ call.arg.ok /\ call.arg.url \notin WallUrls) =>
        /\ call.ret[1].ok
        /\ LET counts == CountsOn(call.arg.paragraphs) \cup {0}
               n == call.ret[1].value.lifetimeFollowerCount
           IN n \in counts /\ \A c \in counts : c <= n

\* the larger count comes first and a later smaller one does not replace it
C21_Witness ==
    /\ AudienceReturned
    /\ call.arg.paragraphs = <<"1,746", "49">>
    /\ call.ret[1].ok
    /\ call.ret[1].value.lifetimeFollowerCount = 1746

-----------------------------------------------------------------------------
(* linkedin-scraper: scrapeDemographicAnalytics                             *)

DEMOGRAPHIC_ANALYTICS_URL ==
    "https://www.linkedin.com/analytics/demographic-detail/urn:li:fsd_profile:profile?metricType=MEMBER_FOLLOWERS"

\* SECTION_HEADERS, in the order of Object.entries
SECTION_HEADERS ==
    << [key |-> "jobTitles", keyword |-> "job title"],
       [key |-> "locations", keyword |-> "location"],
       [key |-> "industries", keyword |-> "industr"],
       [key |-> "seniorities", keyword |-> "seniorit"] >>

SectionKeys == {SECTION_HEADERS[k].key : k \in 1..Len(SECTION_HEADERS)}

STOP_KEYWORDS == <<"company size", "function", "demographics of">>

NoSection == "null"

\* matchSection(line): the key of the first header whose keyword the
\* lower-cased line includes, or null
matchSection(line) ==
    LET lower == ToLowerCase(line)
        hits == {k \in 1..Len(SECTION_HEADERS) :
                    Includes(lower, SECTION_HEADERS[k].keyword)}
    IN IF hits = {} THEN NoSection
       ELSE SECTION_HEADERS[CHOOSE k \in hits : \A h \in hits : k <= h].key

\* a mutant of isStopLine: no line stops a section
isStopLineNever(line) == FALSE

\* isStopLine(line): the lower-cased line starts with a stop keyword
isStopLine(line) ==
    LET lower == ToLowerCase(line)
    IN \E k \in 1..Len(STOP_KEYWORDS) : StartsWith(lower, STOP_KEYWORDS[k])

\* nextLine.match(/^([\d.]+)%$/)
IsPercentLine(line) ==
    /\ Len(line) >= 2
    /\ SubSeq(line, Len(line), Len(line)) = "%"
    /\ \A i \in 1..(Len(line) - 1) : SubSeq(line, i, i) \in Digits \cup {"."}

RECURSIVE StripZeros(_)
StripZeros(digits) ==
    IF digits # "" /\ SubSeq(digits, Len(digits), Len(digits)) = "0"
    THEN StripZeros(SubSeq(digits, 1, Len(digits) - 1))
    ELSE digits

\* parseFloat of a string of digits and dots: the number before a second
\* dot, as its whole part and its decimals; NaN without any digit there
parseFloat(s) ==
    LET dot1 == Span(s, 1, Digits)
        dot2 == Span(s, dot1 + 1, Digits)
        whole == SubSeq(s, 1, dot1 - 1)
        decimals == SubSeq(s, dot1 + 1, dot2 - 1)
    IN IF whole = "" /\ decimals = "" THEN [whole |-> NaN, decimals |-> ""]
       ELSE [whole |-> ToNumber(whole), decimals |-> StripZeros(decimals)]

\* lines of document.body.innerText, trimmed, the empty ones dropped
RECURSIVE TrimmedLines(_)
TrimmedLines(lines) ==
    IF lines = <<>> THEN <<>>
    ELSE (IF Trim(Head(lines)) # "" THEN <<Trim(Head(lines))>> ELSE <<>>)
           \o TrimmedLines(Tail(lines))

EmptySections == [k \in SectionKeys |-> <<>>]

\* a mutant of Advance: the scan always advances by two lines
AdvanceTwo(i, recorded) == i + 2

\* `i += 2; continue` after a recorded pair, `i++` on a miss
Advance(i, recorded) == IF recorded THEN i + 2 ELSE i + 1

\* the while loop of BROWSER_SCRIPT from line i on (i counts from 1)
RECURSIVE ScanLines(_, _, _, _)
ScanLines(trimmed, i, currentSection, sections) ==
    IF i > Len(trimmed) THEN sections
    ELSE LET line == trimmed[i]
             nextLine == IF i + 1 <= Len(trimmed) THEN trimmed[i + 1] ELSE ""
             sectionKey == matchSection(line)
         IN IF sectionKey # NoSection
            THEN ScanLines(trimmed, i + 1, sectionKey, sections)
            ELSE IF currentSection # NoSection /\ isStopLine(line)
            THEN ScanLines(trimmed, i + 1, NoSection, sections)
            ELSE IF currentSection # NoSection /\ IsPercentLine(nextLine)
            THEN ScanLines(trimmed, Advance(i, TRUE), currentSection,
                     [sections EXCEPT ![currentSection] =
                         Append(@, [label |-> line, count |-> 0,
                                    percentage |->
                                        parseFloat(SubSeq(nextLine, 1, Len(nextLine) - 1))])])
            ELSE ScanLines(trimmed, Advance(i, FALSE), currentSection, sections)

\* BROWSER_SCRIPT evaluated on a page with these lines of text
BrowserScript(lines) == ScanLines(TrimmedLines(lines), 1, NoSection, EmptySections)

\* a navigation that resolved on `url` with these lines of rendered text
\* a page the navigation ended on: its URL, whether it has a <main>
\* element, and the lines of document.body.innerText
LandedWith(url, main, lines) ==
    [ok |-> TRUE, url |-> url, main |-> main, lines |-> lines]

\* scrapeDemographicAnalytics(page) when its page.goto ends as `visit`
scrapeDemographicAnalytics(visit) ==
    IF ~visit.ok THEN Failed(NavigationError)
    ELSE IF isBlocked(visit.url) THEN Failed(BlockedError)
    ELSE IF Caught(waitForSelector(visit.main)) # NoError
    THEN Failed(Caught(waitForSelector(visit.main)))
    ELSE LET sections == BrowserScript(visit.lines)
         IN Fulfilled([industries |-> sections["industries"],
                       jobTitles |-> sections["jobTitles"],
                       locations |-> sections["locations"],
                       functions |-> <<>>,
                       seniorities |-> sections["seniorities"]])

-----------------------------------------------------------------------------
(* scrapeDemographicAnalytics on its own, on any page                      *)

MaxLines == 4

\* lines of text a page can carry, each with what it is in the scan: the
\* header of a tracked section, a stop line, a "<number>%" line (with its
\* number), a label, or a blank line
Line(text, shown, kind, section, whole, decimals) ==
    [text |-> text, shown |-> shown, kind |-> kind, section |-> section,
     number |-> [whole |-> whole, decimals |-> decimals]]

PageLines ==
    { Line("Job title", "Job title", "header", "jobTitles", 0, ""),
      Line("Industrial Engineer", "Industrial Engineer", "header", "industries", 0, ""),
      Line("Company size", "Company size", "stop", NoSection, 0, ""),
      Line(" Engineer", "Engineer", "label", NoSection, 0, ""),
      Line("19.2%", "19.2%", "percent", NoSection, 19, "2"),
      Line("  ", "", "blank", NoSection, 0, "") }

DemographicVisits ==
    {[ok |-> FALSE, url |-> BlankUrl, main |-> FALSE, lines |-> <<>>]}
      \cup {LandedWith(w, TRUE, <<>>) : w \in WallUrls}
      \cup {LandedWith(DEMOGRAPHIC_ANALYTICS_URL, main, lines) :
              main \in BOOLEAN, lines \in TextsOf(PageLines, MaxLines)}

DemographicInit ==
    /\ IdleProgram
    /\ call \in { [fn |-> "scrapeDemographicAnalytics", arg |-> visit, ret |-> <<>>] :
                    visit \in DemographicVisits }

ScrapeDemographicCall ==
    /\ call.fn = "scrapeDemographicAnalytics"
    /\ call.ret = <<>>
    /\ call' = [call EXCEPT !.ret = <<scrapeDemographicAnalytics(call.arg)>>]
    /\ CallFrame

DemographicNext == ScrapeDemographicCall

DemographicSpec == DemographicInit /\ [][DemographicNext]_vars

DemographicReturned == call.fn = "scrapeDemographicAnalytics" /\ call.ret # <<>>

-----------------------------------------------------------------------------
(* C22 *)

LineTruth(text) == CHOOSE l \in PageLines : l.text = text

\* the lines of the page that are not blank, as what they are
RECURSIVE Shown(_)
Shown(lines) ==
    IF lines = <<>> THEN <<>>
    ELSE (IF LineTruth(Head(lines)).kind = "blank" THEN <<>>
          ELSE <<LineTruth(Head(lines))>>) \o Shown(Tail(lines))

\* the section line i lies in: that of the nearest header before it, unless
\* a stop line comes after that header
SectionAt(shown, i) ==
    LET marks == {j \in 1..(i - 1) : shown[j].kind \in {"header", "stop"}}
    IN IF marks = {} THEN NoSection
       ELSE LET last == CHOOSE j \in marks : \A k \in marks : k <= j
            IN IF shown[last].kind = "header" THEN shown[last].section
               ELSE NoSection

\* the label lines of section `key` that a "<number>%" line follows, as
\* entries, in page order
RECURSIVE PairsFrom(_, _, _)
PairsFrom(shown, i, key) ==
    IF i >= Len(shown) THEN <<>>
    ELSE (IF /\ shown[i].kind = "label"
             /\ SectionAt(shown, i) = key
             /\ shown[i + 1].kind = "percent"
          THEN <<[label |-> shown[i].shown, count |-> 0,
                  percentage |-> shown[i + 1].number]>>
          ELSE <<>>) \o PairsFrom(shown, i + 1, key)

\* the entries of a bucket whose label is not itself a "<number>%" line
RECURSIVE LabelEntries(_)
LabelEntries(bucket) ==
    IF bucket = <<>> THEN <<>>
    ELSE (IF \E l \in PageLines : l.kind = "percent" /\ l.text = Head(bucket).label
          THEN <<>> ELSE <<Head(bucket)>>) \o LabelEntries(Tail(bucket))

BucketOf(value, key) ==
    IF key = "jobTitles" THEN value.jobTitles
    ELSE IF key = "locations" THEN value.locations
    ELSE IF key = "industries" THEN value.industries
    ELSE value.seniorities

-----------------------------------------------------------------------------
(* Cookie restore and the two loaders                                      *)

\* the stages in which a login is performed
LoginStages == {"CredentialLoginAttempt", "InteractiveManualLogin"}

\* C23: whenever the cookie file the run started with holds a bundle that
\* the Credential Store Loader (loadCookies of linkedin-scraper) accepts, in
\* either on-disk shape, cookie restore is attempted before any login stage
\* is entered.
C23_RestoreAttemptedForAcceptedFile ==
    (loadCookies(initialFile).ok /\ authVisited \cap LoginStages # {})
        => "CookieRestoreAttempt" \in authVisited


\* C24: whenever the orchestrator has persisted cookies after a successful
\* login, the file holds the cookie jar of the session that owns the
\* published page, the session in which authentication succeeded; this
\* includes the visible session relaunched for a security challenge.
C24_SavedJarIsAuthenticatedSession ==
    (pc = "auth" /\ authStage = "Authenticated" /\ cookieWrites > 0)
        => cookieFile = FileOf("array", browsers[ctx.page].jar)


\* C25: whatever the stored cookie file holds, a cookie restore that does
\* not restore the session (the validation fails, or injecting the stored
\* cookies fails) advances to the next stage: the restore attempt is left
\* for Authenticated or CookiesRejected only, never for a fatal stage.
C25_RestoreFailureAdvances ==
    [][(authStage = "CookieRestoreAttempt" /\ authStage' # authStage)
          => authStage' \in {"Authenticated", "CookiesRejected"}]_vars


-----------------------------------------------------------------------------
(* Fatal outcomes of the authentication run                                *)

\* the stages in which a visible browser waits for the operator
VisibleStages == {"InteractiveChallengeResolution", "AwaitingManualLogin"}

\* the browser a visible stage waits in
VisibleBrowser ==
    IF "AwaitingManualLogin" \in authVisited THEN "manual" ELSE "challenge"

-----------------------------------------------------------------------------
(* The security challenge                                                  *)

\* the step that leaves ChallengeDetected
LeavesChallengeDetected ==
    authStage = "ChallengeDetected" /\ authStage' # authStage

\* the step in which the wait in the headed challenge browser settles
ChallengeWaitSettles ==
    authStage = "InteractiveChallengeResolution" /\ authStage' # authStage

\* C27: ChallengeDetected is always left, for a new browser that is visible
\* (not headless) and in which the username and password of the credential
\* login are submitted again on the login page (or for a fatal error of the
\* launch or the navigation itself); the wait there has the timeout of the
\* credential login; when it ends elsewhere than on the feed the run fails
\* with Timeout, and a run that timed out never reaches Authenticated.
C27_ChallengeRelaunchesVisible ==
    /\ (authStage = "ChallengeDetected") ~> (authStage # "ChallengeDetected")
    /\ [][LeavesChallengeDetected =>
            \/ /\ authStage' = "InteractiveChallengeResolution"
               /\ browsers["challenge"].state = "unlaunched"
               /\ browsers'["challenge"].state = "open"
               /\ ~browsers'["challenge"].headless
               /\ browsers'["challenge"].url = LINKEDIN_LOGIN_URL
               /\ browsers'["challenge"].form = <<config.username, config.password>>
               /\ browsers'["challenge"].form = browsers[browserContext].form
            \/ /\ authStage' = "Fatal"
               /\ authError' \in {LaunchError, LoginPageError}]_vars
    /\ [][ChallengeWaitSettles =>
            /\ browsers'["challenge"].wait = browsers[browserContext].wait
            /\ browsers'["challenge"].wait = config.loginTimeoutSeconds * 1000
            /\ IF browsers'["challenge"].url = LINKEDIN_FEED_URL
               THEN authStage' = "Authenticated"
               ELSE authStage' = "Timeout" /\ authError' # NoError]_vars
    /\ []("Timeout" \in authVisited =>
            /\ authStage = "Timeout"
            /\ ~ctx.authenticated
            /\ pc \in {"auth", "crashed"})

\* the headed challenge browser waited with the 30 s timeout of the
\* credential login and timed out on the challenge page
C27_Witness ==
    /\ authStage = "Timeout"
    /\ "InteractiveChallengeResolution" \in authVisited
    /\ ~browsers["challenge"].headless
    /\ browsers["challenge"].form = <<"user@example.com", "secret">>
    /\ browsers["challenge"].wait = 30000
    /\ browsers["challenge"].url = "https://www.linkedin.com/uas/challenge"


-----------------------------------------------------------------------------
(* Manual login                                                            *)

\* the step that leaves InteractiveManualLogin
LeavesManualLogin ==
    authStage = "InteractiveManualLogin" /\ authStage' # authStage

\* the step in which the wait for the manual login settles
ManualWaitSettles ==
    authStage = "AwaitingManualLogin" /\ authStage' # authStage

\* C28: on the manual-login path the registered browser is closed before
\* the visible browser is launched (it is closed even when that launch
\* fails); once the wait has begun, the visible browser and its context are
\* the registered instance and context and the headless flag is false; when
\* the wait ends elsewhere than on the feed the run fails with Timeout and
\* does not reach Authenticated.
C28_ManualLoginReplacesBrowser ==
    /\ [][LeavesManualLogin =>
            /\ ctx.instance = "service"
            /\ browsers["service"].state = "open"
            /\ browsers'["service"].state = "closed"
            /\ browsers["manual"].state = "unlaunched"
            /\ authStage' \in {"AwaitingManualLogin", "Fatal"}
            /\ authStage' = "AwaitingManualLogin" =>
                  /\ browsers'["manual"].state = "open"
                  /\ ~browsers'["manual"].headless
                  /\ browsers'["manual"].url = LINKEDIN_LOGIN_URL]_vars
    /\ []("AwaitingManualLogin" \in authVisited =>
            /\ ctx.instance = "manual"
            /\ ctx.context = "manual"
            /\ ctx.headless = FALSE
            /\ browsers["service"].state = "closed")
    /\ [][ManualWaitSettles =>
            /\ browsers'["manual"].wait = config.loginTimeoutSeconds * 1000
            /\ IF browsers'["manual"].url = LINKEDIN_FEED_URL
               THEN authStage' = "Authenticated"
               ELSE /\ authStage' = "Timeout"
                    /\ authError' = "Error: [LinkedIn Auth] Login timeout"
                    /\ ~ctx'.authenticated]_vars
    /\ []((authStage = "Timeout" /\ "AwaitingManualLogin" \in authVisited) =>
            [](authStage = "Timeout" /\ pc \in {"auth", "crashed"}))

\* the manual login timed out on the login page of the visible browser,
\* which is the registered one; the first browser is closed
C28_Witness ==
    /\ authStage = "Timeout"
    /\ "AwaitingManualLogin" \in authVisited
    /\ browsers["service"].state = "closed"
    /\ browsers["manual"].state = "open"
    /\ ~browsers["manual"].headless
    /\ browsers["manual"].url = LINKEDIN_LOGIN_URL
    /\ ctx.instance = "manual"


-----------------------------------------------------------------------------
(* Rejected stored cookies                                                 *)

\* the cookies of the stored file the run tried to restore the session from
RejectedCookies ==
    LET saved == AuthLoadCookies(initialFile)
    IN {saved[i] : i \in 1..Len(saved)}

\* the cookies in the jar of a browser
JarOf(b) == {browsers[b].jar[i] : i \in 1..Len(browsers[b].jar)}

\* C29: when cookie restore fails validation, the validation page is
\* closed and the cookie jar of the session is empty when CookiesRejected is
\* entered and still when a login stage starts; from then on none of the
\* rejected cookies is in the jar of any session of the run.
C29_RejectedCookiesCleared ==
    /\ [][(authStage = "CookieRestoreAttempt" /\ authStage' = "CookiesRejected") =>
            /\ browsers'[browserContext].jar = <<>>
            /\ browsers'[browserContext].pages = 0]_vars
    /\ [][(authStage = "CookiesRejected" /\ authStage' # authStage) =>
            /\ authStage' \in LoginStages
            /\ browsers'[browserContext].jar = <<>>
            /\ browsers'[browserContext].pages = 0]_vars
    /\ []("CookiesRejected" \in authVisited =>
            \A b \in BrowserIds : JarOf(b) \cap RejectedCookies = {})

\* the stored session token was rejected, and the credential login then
\* succeeded in the same session, whose jar holds the fresh token only
C29_Witness ==
    /\ "CookiesRejected" \in authVisited
    /\ authStage = "Authenticated"
    /\ Cookie("li_at", StoredToken, LINKEDIN_DOMAIN) \in RejectedCookies
    /\ ctx.page = "service"
    /\ Cookie("li_at", FreshToken, LINKEDIN_DOMAIN) \in JarOf("service")
    /\ Cookie("li_at", StoredToken, LINKEDIN_DOMAIN) \notin JarOf("service")


-----------------------------------------------------------------------------
(* linkedin-scraper: injectCookies                                         *)

SESSION_EXPIRES == -1

\* one element of the array passed to context.addCookies
SessionCookie(name, value, httpOnly) ==
    [name |-> name, value |-> value, domain |-> LINKEDIN_DOMAIN, path |-> "/",
     expires |-> SESSION_EXPIRES, secure |-> TRUE, httpOnly |-> httpOnly,
     sameSite |-> "None"]

\* ...(cookies.X !== undefined ? [{ name: 'X', ... }] : [])
Spread(bundle, name, httpOnly) ==
    IF name \in DOMAIN bundle
    THEN <<SessionCookie(name, bundle[name], httpOnly)>>
    ELSE <<>>

\* no extra HTTP header is set on the context
NoHeaders == <<>>

\* a mutant of CsrfHeaders: no header is ever set
NoCsrfHeaders(bundle) == NoHeaders

\* if (cookies.JSESSIONID !== undefined) context.setExtraHTTPHeaders({...})
CsrfHeaders(bundle) ==
    IF "JSESSIONID" \in DOMAIN bundle
    THEN [csrfToken |-> extractCsrfToken(bundle["JSESSIONID"]),
          xLiLang |-> "en_US",
          xRestliProtocolVersion |-> "2.0.0"]
    ELSE NoHeaders

\* a browser context as injectCookies sees it: its cookie jar and its extra
\* HTTP headers
FreshContext == [jar |-> <<>>, headers |-> NoHeaders]

\* injectCookies(context, bundle): the context after addCookies and
\* setExtraHTTPHeaders
injectCookies(context, bundle) ==
    LET added == <<SessionCookie("li_at", bundle["li_at"], TRUE)>>
                   \o Spread(bundle, "JSESSIONID", FALSE)
                   \o Spread(bundle, "liap", TRUE)
                   \o Spread(bundle, "li_rm", TRUE)
        headers == CsrfHeaders(bundle)
    IN [jar |-> AddCookies(context.jar, added),
        headers |-> IF headers = NoHeaders THEN context.headers ELSE headers]

\* values of the fields of a bundle: a token, a quoted and an unquoted
\* carrier token, the empty string
BundleValues == {StoredToken, QuotedSession, "ajax:1", ""}

\* the bundles loadCookies can return: li_at is present and not empty, each
\* optional field is present or absent
Bundles ==
    { b \in UNION { [{"li_at"} \cup fields -> BundleValues] :
                      fields \in SUBSET OptionalFields } :
        b["li_at"] # "" }

InjectInit ==
    /\ IdleProgram
    /\ call \in { [fn |-> "injectCookies", arg |-> b, ret |-> <<>>] : b \in Bundles }

\* injectCookies on the fresh context of a new browser session
InjectCookiesCall ==
    /\ call.fn = "injectCookies"
    /\ call.ret = <<>>
    /\ call' = [call EXCEPT !.ret = <<injectCookies(FreshContext, call.arg)>>]
    /\ CallFrame

InjectNext == InjectCookiesCall

InjectSpec == InjectInit /\ [][InjectNext]_vars

InjectReturned == call.fn = "injectCookies" /\ call.ret # <<>>

\* the context injectCookies left behind, and the cookie of a name in it
injected == call.ret[1]
CookieNamed(jar, n) == CHOOSE c \in {jar[i] : i \in 1..Len(jar)} : c.name = n

\* C30: injectCookieBundle adds exactly one cookie for the primary token and
\* for each optional field present in the bundle and none for an absent
\* field, each with the field's value, the domain .linkedin.com and session
\* expiry (-1); when the bundle has a carrier token the context's headers
\* are the request-forgery token extractCsrfToken gives for it plus the two
\* fixed protocol headers, and otherwise no header is set.
C30_CookiesAndHeadersInjected ==
    InjectReturned =>
        LET bundle == call.arg
            jar == injected.jar
        IN /\ {jar[i].name : i \in 1..Len(jar)} = DOMAIN bundle
           /\ Len(jar) = Cardinality(DOMAIN bundle)
           /\ \A i \in 1..Len(jar) :
                 /\ jar[i].value = bundle[jar[i].name]
                 /\ jar[i].domain = ".linkedin.com"
                 /\ jar[i].expires = -1
           /\ IF "JSESSIONID" \in DOMAIN bundle
              THEN /\ injected.headers =
                         [csrfToken |-> extractCsrfToken(bundle["JSESSIONID"]),
                          xLiLang |-> "en_US",
                          xRestliProtocolVersion |-> "2.0.0"]
                   /\ bundle["JSESSIONID"] = "\"ajax:1\"" =>
                         injected.headers.csrfToken = "ajax:1"
              ELSE injected.headers = NoHeaders

\* a bundle with a quoted carrier token and no other optional field: two
\* bundle, and the unquoted token in the csrf-token header
C30_Witness ==
    /\ InjectReturned
    /\ DOMAIN call.arg = {"li_at", "JSESSIONID"}
    /\ call.arg["JSESSIONID"] = "\"ajax:1\""
    /\ Len(injected.jar) = 2
    /\ CookieNamed(injected.jar, "JSESSIONID").value = "\"ajax:1\""
    /\ injected.headers.csrfToken = "ajax:1"


-----------------------------------------------------------------------------
(* The render-marker waits of the three extractors                         *)

\* each extractor called on its own, on pages with and without the marker
\* its wait looks for
RenderInit ==
    /\ IdleProgram
    /\ call \in
         { [fn |-> "scrapeContentAnalytics",
            arg |-> [first |-> first, second |-> second], ret |-> <<>>] :
             first \in Visits(ImpressionsUrl, TextsOf(ImpressionLabels, 1)),
             second \in Visits(EngagementsUrl, EngagementPages) }
         \cup
         { [fn |-> "scrapeAudienceAnalytics", arg |-> visit, ret |-> <<>>] :
             visit \in AudienceVisits }
         \cup
         { [fn |-> "scrapeDemographicAnalytics", arg |-> visit, ret |-> <<>>] :
             visit \in DemographicVisits }

RenderNext ==
    \/ ScrapeContentCall
    \/ ScrapeAudienceCall
    \/ ScrapeDemographicCall

RenderSpec == RenderInit /\ [][RenderNext]_vars

\* the navigation ended on a page of the site that is not a wall
OnAnalyticsPage(visit) == visit.ok /\ visit.url \notin WallUrls

\* C31: in each extractor, when the page carries no render marker (no chart
\* element, no main element), so that the wait before the extraction times
\* out, the extractor does not fail: it returns a category object, whose
\* series parsed from a page without chart elements are empty.
C31_RenderWaitTimeoutNotFatal ==
    /\ (/\ ContentReturned
        /\ OnAnalyticsPage(firstVisit) /\ secondVisit.ok
        /\ (firstVisit.labels = <<>> \/ secondVisit.labels = <<>>))
          => /\ returned.ok
             /\ returned.error = NoError
             /\ firstVisit.labels = <<>> =>
                   /\ returned.value.impressions = <<>>
                   /\ returned.value.engagementRate = 0
             /\ secondVisit.labels = <<>> => returned.value.engagements = <<>>
    /\ (/\ AudienceReturned
        /\ OnAnalyticsPage(call.arg)
        /\ call.arg.labels = <<>>)
          => /\ returned.ok
             /\ returned.error = NoError
             /\ returned.value.followerGrowth = <<>>
    /\ (/\ DemographicReturned
        /\ OnAnalyticsPage(call.arg)
        /\ ~call.arg.main)
          => /\ returned.ok
             /\ returned.error = NoError
             /\ DOMAIN returned.value =
                  {"industries", "jobTitles", "locations", "functions", "seniorities"}

\* the demographic page has no main element, the wait timed out, and the
\* pair on the page was parsed all the same
C31_Witness ==
    /\ DemographicReturned
    /\ call.arg.url = DEMOGRAPHIC_ANALYTICS_URL
    /\ ~call.arg.main
    /\ call.arg.lines = <<"Job title", " Engineer", "19.2%">>
    /\ returned.ok
    /\ Len(returned.value.jobTitles) = 1


-----------------------------------------------------------------------------
(* Malformed lines in the demographic scan                                 *)

\* line i starts a label/percentage pair: the next line is a "<number>%" line
StartsPair(shown, i) == i < Len(shown) /\ shown[i + 1].kind = "percent"

\* line i is a malformed line of a section: neither header nor stop line,
\* and no "<number>%" line follows it
Malformed(shown, i) ==
    /\ shown[i].kind \in {"label", "percent"}
    /\ SectionAt(shown, i) # NoSection
    /\ ~StartsPair(shown, i)

\* C32: in the demographic line scan a line that starts no label/percentage
\* pair is skipped alone, and a recorded pair is skipped as a whole: after a
\* malformed line in a section, every later label line of that section that
\* a "<number>%" line follows is recorded in the section's bucket, and the
\* percentage line of a recorded pair is not read again as a label.
C32_MalformedLineSkippedAlone ==
    (DemographicReturned /\ OnAnalyticsPage(call.arg)) =>
        LET shown == Shown(call.arg.lines)
        IN /\ returned.ok
           /\ \A m \in 1..Len(shown) : \A k \in (m + 1)..Len(shown) :
                 (/\ Malformed(shown, m)
                  /\ shown[k].kind = "label"
                  /\ StartsPair(shown, k)
                  /\ SectionAt(shown, k) = SectionAt(shown, m))
                   => \E e \in 1..Len(BucketOf(returned.value, SectionAt(shown, k))) :
                         BucketOf(returned.value, SectionAt(shown, k))[e] =
                            [label |-> shown[k].shown, count |-> 0,
                             percentage |-> shown[k + 1].number]
           /\ call.arg.lines = <<"Job title", " Engineer", "19.2%", "19.2%">> =>
                 returned.value.jobTitles =
                    <<[label |-> "Engineer", count |-> 0,
                       percentage |-> [whole |-> 19, decimals |-> "2"]]>>

\* a label without percentage, then a well-formed pair of the same section:
\* the pair is recorded
C32_Witness ==
    /\ DemographicReturned
    /\ call.arg.url = DEMOGRAPHIC_ANALYTICS_URL
    /\ call.arg.lines = <<"Job title", " Engineer", " Engineer", "19.2%">>
    /\ returned.ok
    /\ returned.value.jobTitles =
          <<[label |-> "Engineer", count |-> 0,
             percentage |-> [whole |-> 19, decimals |-> "2"]]>>


-----------------------------------------------------------------------------
(* linkedin-scraper: the close() of a browser session                      *)

CloseRejection == "Error: Target page, context or browser has been closed"

\* the parts of a session, as close() goes through them
SessionParts == <<"page", "context", "browser">>

\* a session whose parts are all open
OpenSession == [part \in {"page", "context", "browser"} |-> "open"]

\* x.close(): a part that closes takes the parts inside it along (a context
\* its page, a browser both); a rejected close leaves everything as it is
Closing(session, part, rejects) ==
    IF rejects THEN session
    ELSE [p \in DOMAIN session |->
            IF \/ p = part
               \/ part = "browser"
               \/ (part = "context" /\ p = "page")
            THEN "closed" ELSE session[p]]

\* the awaits of close() from part k on: each is
\* `await x.close().catch(() => undefined)`; an uncaught rejection would end
\* close() there
RECURSIVE CloseFrom(_, _, _)
CloseFrom(session, k, rejects) ==
    IF k > Len(SessionParts) THEN [session |-> session, error |-> NoError]
    ELSE LET part == SessionParts[k]
             rejection == IF rejects[part] THEN CloseRejection ELSE NoError
             after == Closing(session, part, rejects[part])
         IN IF Caught(rejection) # NoError
            THEN [session |-> after, error |-> Caught(rejection)]
            ELSE CloseFrom(after, k + 1, rejects)

\* session.close() when the close of each part rejects as `rejects` tells
close(session, rejects) == CloseFrom(session, 1, rejects)

\* which of the three closes reject, for one call of close()
Rejections == [{"page", "context", "browser"} -> BOOLEAN]

\* close() is called on a session, twice, with any rejections of the closes
CloseInit ==
    /\ IdleProgram
    /\ call \in { [fn |-> "close",
                   arg |-> [session |-> session, rejects |-> <<r1, r2>>],
                   ret |-> <<>>] :
                    session \in {OpenSession, [OpenSession EXCEPT !["page"] = "closed"]},
                    r1 \in Rejections, r2 \in Rejections }

\* session.close(), on the session as the previous call left it
CloseCall ==
    /\ call.fn = "close"
    /\ Len(call.ret) < 2
    /\ LET session == IF call.ret = <<>> THEN call.arg.session
                      ELSE call.ret[Len(call.ret)].session
       IN call' = [call EXCEPT !.ret =
                     Append(@, close(session, call.arg.rejects[Len(@) + 1]))]
    /\ CallFrame

CloseNext == CloseCall

CloseSpec == CloseInit /\ [][CloseNext]_vars

\* C33: close() of a session completes without throwing whichever of its
\* three closes (page, context, browser) fail, and so does a second call;
\* all three closes are attempted each time, so that a part whose close
\* did not fail is closed.
C33_CloseNeverThrows ==
    call.fn = "close" =>
        \A k \in 1..Len(call.ret) :
            /\ call.ret[k].error = NoError
            /\ ~call.arg.rejects[k]["browser"] =>
                  \A p \in {"page", "context", "browser"} :
                      call.ret[k].session[p] = "closed"
            /\ ~call.arg.rejects[k]["context"] =>
                  call.ret[k].session["context"] = "closed"

\* the first close() met a failing page.close() and a failing
\* context.close(), the second one failures of all three closes: both
\* completed, and the browser is closed
C33_Witness ==
    /\ call.fn = "close"
    /\ Len(call.ret) = 2
    /\ call.arg.rejects[1] = [page |-> TRUE, context |-> TRUE, browser |-> FALSE]
    /\ call.arg.rejects[2] = [page |-> TRUE, context |-> TRUE, browser |-> TRUE]
    /\ call.ret[1].error = NoError
    /\ call.ret[2].error = NoError
    /\ call.ret[2].session["browser"] = "closed"


-----------------------------------------------------------------------------
(* Sharing between the category tasks                                      *)

\* the step is one of task c: its position in the task's code changes
StepOf(c) == task'[c].pc # task[c].pc

\* C34: while the three category tasks run, the cookie bundle is the one
\* loaded from the cookie file up front and no step changes it; the session
\* and the browser of a task change only in steps of that task, and a step
\* of a task leaves the other tasks' sessions as they are, in every
\* interleaving.
C34_BundleReadOnlySessionsOwned ==
    /\ [](pc \in {"tasks", "returned"} =>
            /\ loadCookies(cookieFile).ok
            /\ cookies = loadCookies(cookieFile).bundle)
    /\ [][pc = "tasks" =>
            /\ cookies' = cookies
            /\ \A c \in Cat :
                  (\/ task'[c].session # task[c].session
                   \/ task'[c].browser # task[c].browser)
                     => /\ StepOf(c)
                        /\ \A d \in Cat \ {c} : task'[d] = task[d]]_vars

\* an interleaving: content has closed its session, audience is extracting
\* in its own, demographics is about to inject the bundle in its own
C34_Witness ==
    /\ pc = "tasks"
    /\ task["content"].pc = "settled"
    /\ task["content"].session = "closed"
    /\ task["audience"].pc = "extract"
    /\ task["audience"].session = "open"
    /\ task["demographics"].pc = "inject"
    /\ task["demographics"].session = "open"
    /\ cookies = loadCookies(cookieFile).bundle


-----------------------------------------------------------------------------
(* Days that occur twice in a chart                                        *)

\* the value of the last entry of that date in a series
LastValueOf(series, date) ==
    LET last == CHOOSE i \in 1..Len(series) :
                    /\ series[i].date = date
                    /\ \A j \in (i + 1)..Len(series) : series[j].date # date
    IN series[last].value

\* a series has one entry per date, and for each date of the data points
\* read from the page it has the value of the last of them
OnePerDay(series, points) ==
    /\ \A i, j \in 1..Len(series) : i # j => series[i].date # series[j].date
    /\ \A k \in 1..Len(points) :
          \E i \in 1..Len(series) :
              /\ series[i].date = points[k].date
              /\ series[i].value = LastValueOf(points, points[k].date)

\* C35: a series returned by the content extractor holds one entry per
\* calendar day of the chart: when two matching labels carry the same date,
\* the series has that date once, with the value of the later label.
C35_OneEntryPerDay ==
    (ContentReturned /\ returned.ok) =>
        /\ OnePerDay(returned.value.impressions,
                     ExpectedSeries(firstVisit.labels, "Impressions"))
        /\ OnePerDay(returned.value.engagements,
                     ExpectedSeries(secondVisit.labels, "Engagements"))


-----------------------------------------------------------------------------
(* The result file and the completion hook                                 *)

\* C36: the start handler writes the result file and then emits the
\* linkedin-analytics-complete hook, once each and in this order, in the one
\* step after scrapeLinkedInAnalytics has returned its result; a handler
\* that got a result and completed has done both; when
\* scrapeLinkedInAnalytics failed, nothing is written or emitted.
C36_WriteThenEmitOnceAfterResult ==
    /\ [](events \in {<<>>, <<"write", "emit">>})
    /\ [](events # <<>> => (result.built /\ scrapeError = NoError
                             /\ pc \in {"finish", "done"}))
    /\ []((pc \in {"finish", "done"} /\ result.built) => events = <<"write", "emit">>)
    /\ [](scrapeError # NoError => (events = <<>> /\ ~result.built))
    /\ [][events' # events => (pc = "returned" /\ events = <<>>)]_vars

\* a run whose scrape returned a partial result: the file was written and
\* the hook emitted, once
C36_Witness ==
    /\ pc = "done"
    /\ result.built
    /\ Len(result.errors) = 1
    /\ events = <<"write", "emit">>


-----------------------------------------------------------------------------
(* The order of the error entries                                          *)

\* the position of the category an error entry is tagged with, in the
\* order content, audience, demographics
RankOf(entry) ==
    IF StartsWith(entry, "content: ") THEN 1
    ELSE IF StartsWith(entry, "audience: ") THEN 2
    ELSE IF StartsWith(entry, "demographics: ") THEN 3
    ELSE 0

\* C37: in every result, whichever way the steps of the three tasks were
\* interleaved, the entries of errors are tagged content, audience,
\* demographics in this order (failed categories only), each with the
\* reason its task was rejected with.
C37_ErrorsInCategoryOrder ==
    result.built =>
        /\ \A i \in 1..Len(result.errors) :
              /\ RankOf(result.errors[i]) \in 1..3
              /\ \A j \in (i + 1)..Len(result.errors) :
                    RankOf(result.errors[i]) < RankOf(result.errors[j])
        /\ \A c \in {"content", "audience", "demographics"} :
              task[c].status = "rejected" =>
                  \E i \in 1..Len(result.errors) :
                      result.errors[i] = c \o ": " \o task[c].reason

\* all three tasks failed, demographics at the launch of its browser and
\* content only in its extractor: the entries are in category order
C37_Witness ==
    /\ result.built
    /\ result.errors = <<"content: " \o BlockedError,
                         "audience: " \o InjectError,
                         "demographics: " \o LaunchError>>


-----------------------------------------------------------------------------
(* A session creation that fails after the launch                          *)

\* C38: a task whose createBrowserSession was rejected, so that no session
\* (and no close) ever reached the task, has no browser process running.
C38_FailedCreateLeavesNoBrowser ==
    \A c \in Cat :
        (task[c].status = "rejected" /\ task[c].session = "none")
            => task[c].browser # "open"


-----------------------------------------------------------------------------
(* The browsers the authentication launches                                *)

\* the authentication run has ended, in Authenticated or in a fatal stage
AuthEnded == authStage \in {"Authenticated"} \cup FatalStages

\* C39: once the authentication run has ended, every browser that is still
\* open is the registered browser.instance (the one the shutdown hook
\* closes), and a published page belongs to the registered browser.context.
C39_LaunchedBrowsersClosedOrRegistered ==
    AuthEnded =>
        /\ \A b \in BrowserIds :
              browsers[b].state = "open" => b = ctx.instance
        /\ ctx.authenticated => ctx.page = ctx.context
====
